---- MODULE Spec2Model ----
(***************************************************************************)
(* A model of node-reudp: a reliable datagram transport over UDP.          *)
(*                                                                         *)
(* Endpoint A sends payloads to endpoint B with send(); B reassembles      *)
(* them.  A owns the sending table (src/index.js, the "sender engine"), B  *)
(* owns the receiving table and the finish-notify queue (the "receiver     *)
(* engine").  Every callback of the event loop (a socket read, a timer     *)
(* expiry) is one atomic action; a process.nextTick continuation runs      *)
(* before any other callback and is part of the action that scheduled it.  *)
(* Datagrams in flight are a set: the network may reorder them, and (in    *)
(* Spec) lose them.  Timers carry no clock value: an armed timer may fire  *)
(* at any moment in Spec; the "timely" specifications order the expiries   *)
(* by the length of the delays the code arms them with.                    *)
(*                                                                         *)
(* ApiSpec is the user's side of endpoint A: send() with every kind of     *)
(* argument, to several peers, and close().  CodecSpec applies the         *)
(* sequence codec of libs/utils.js to lists drawn from a small set.        *)
(***************************************************************************)
EXTENDS Integers, Sequences, FiniteSets, TLC

(***************************************************************************)
(* Bounds of the model.                                                    *)
(***************************************************************************)
\* number of send() calls the user makes while transfers may overlap
MaxSends == 1
\* number of send() calls the user makes one after the other (SerialSpec);
\* the transfer ids are 0 .. SerialSends-1
SerialSends == 2
\* longest payload, in bytes
MaxLen == 3
\* MAX_PACKET_SIZE (src/index.js:12, 1076 bytes) scaled down to the payloads
MAX_PACKET_SIZE == 2
\* options.parallelCount (src/index.js:66) the endpoint A is constructed with
ParallelCount == 1
\* the event counters saturate here ("EventCap or more")
EventCap == 2
\* most datagrams in flight: a callback that would exceed it runs later
MaxInFlight == 2
\* most entries of the finish-notify queue
MaxNotify == 1
\* FIN and ACK(FIN) datagrams the network may lose in FinLossSpec
FinLossBudget == 10
\* peers the user of endpoint A sends to; peer 0 is endpoint B
NumPeers == 2
\* MAX_COUNTER (src/index.js:10, 2^32) scaled down to the sends of ApiSpec
MAX_COUNTER == 1
\* number of send() calls that return an id in ApiSpec
MaxApiSends == 2
\* longest list handed to the codec in CodecSpec
CodecLen == 3
\* the sequence numbers of CodecSpec are 0 .. CodecSpan-1 and the largest
CodecSpan == 4
\* longest buffer handed to the checksum and to xor in BytesSpec
BufLen == 9
\* largest sequence number a REQ of the peer of PeerSpec names
MaxSeq == 2
\* longest payload, largest options.parallelCount and largest _frequency of
\* BurstSpec
BurstLen == 9
MaxWindow == 4
MaxFrequency == 3

(***************************************************************************)
(* Program constants.                                                      *)
(***************************************************************************)
RETRY_NOTIFIY_FIN_COUNT == 10
RETRY_REQUEST_COUNT == 10
ERR_NOT_FOUND_ID == 0
\* this._frequency for the default bandWidth and RTT: floor(235 / 232.76)
Frequency == 1
\* the stall closure re-sends while count < 3
STALL_ROUNDS == 3
FLAGS == 32768
MAX_INT16 == 32767
\* the word of xor, in bytes
UNIT == 4
\* how long a table entry went unvisited, in steps of 30 minutes: RecycleAge
\* is "more than 30 min" (the test of ReceivingSession.get), TtlAge "more than
\* the ttl of 60 min" (the test of the sweep)
RecycleAge == 1
TtlAge == 2
\* the type codes of the datagrams
UDP_PSH_CODE == 1
UDP_REQ_CODE == 2
UDP_FIN_CODE == 3
UDP_ACK_CODE == 4
UDP_ERR_CODE == 5

\* MAX_BUFFER_SIZE (src/index.js:13, 2^15 packets) scaled down to the payloads
MAX_BUFFER_SIZE == MaxLen

Ids == 0 .. (SerialSends - 1)
Peers == 0 .. (NumPeers - 1)
\* ids of one peer the model tells apart
Keys == 0 .. (NumPeers * (MAX_COUNTER + SerialSends + MaxApiSends) - 1)

Min(a, b) == IF a < b THEN a ELSE b
Max(a, b) == IF a > b THEN a ELSE b

(***************************************************************************)
(* Sequence codec (libs/utils.js).                                         *)
(***************************************************************************)
\* unique(ary): the first occurrence of every value, in order
RECURSIVE unique(_)
unique(s) ==
    IF s = <<>> THEN <<>>
    ELSE LET front == unique(SubSeq(s, 1, Len(s) - 1))
             x == s[Len(s)]
         IN  IF \E k \in 1 .. Len(front) : front[k] = x THEN front
             ELSE Append(front, x)

\* ary.sort(asc) of a list without duplicates
RECURSIVE sortSet(_)
sortSet(S) ==
    IF S = {} THEN <<>>
    ELSE LET m == CHOOSE x \in S : \A y \in S : x <= y
         IN  <<m>> \o sortSet(S \ {m})

sortAsc(s) == sortSet({s[k] : k \in 1 .. Len(s)})

\* the loop of zipSequences from index i, with its locals start and prev
\* (-1 stands for undefined)
RECURSIVE zipLoop(_, _, _, _)
zipLoop(s, i, start, prev) ==
    IF i > Len(s)
    THEN IF prev = -1 THEN <<>>
         ELSE IF start # -1 THEN <<start + FLAGS, prev + FLAGS>>
         ELSE <<prev>>
    ELSE LET curr == s[i] IN
         IF prev = -1 THEN zipLoop(s, i + 1, start, curr)
         ELSE IF curr = prev THEN zipLoop(s, i + 1, start, prev)
         ELSE IF curr - prev = 1
              THEN zipLoop(s, i + 1, IF start = -1 THEN prev ELSE start, curr)
         ELSE IF start # -1
              THEN <<start + FLAGS, prev + FLAGS>> \o zipLoop(s, i + 1, -1, curr)
         ELSE <<prev>> \o zipLoop(s, i + 1, -1, curr)

\* a zipSequences that takes the list as it comes
zipSequencesAsGiven(ary) == zipLoop(ary, 1, -1, -1)

\* zipSequences(ary), for ary within [0, FLAGS)
zipSequences(ary) == zipLoop(sortAsc(ary), 1, -1, -1)

\* a range test that looks at the smallest value only
zipThrowsFirstOnly(ary) ==
    LET sortedAry == sortAsc(ary) IN
    sortedAry # <<>> /\ (sortedAry[1] >= FLAGS \/ sortedAry[1] < 0)

\* the loop of zipSequences throws Error: some curr of sortedAry is outside
\* [0, FLAGS)
zipThrows(ary) ==
    LET sortedAry == sortAsc(ary) IN
    \E i \in 1 .. Len(sortedAry) : sortedAry[i] >= FLAGS \/ sortedAry[i] < 0

range(a, b) == [k \in 1 .. Max(b - a + 1, 0) |-> a + k - 1]

\* an unzip loop in which a marked value without a partner keeps its mark
RECURSIVE unzipLoopKeepsMark(_, _)
unzipLoopKeepsMark(s, i) ==
    IF i > Len(s) THEN <<>>
    ELSE LET curr == s[i] IN
         IF curr > MAX_INT16 /\ i + 1 <= Len(s) /\ s[i + 1] > MAX_INT16
         THEN range(curr % FLAGS, s[i + 1] % FLAGS)
                  \o unzipLoopKeepsMark(s, i + 2)
         ELSE <<curr>> \o unzipLoopKeepsMark(s, i + 1)

\* the loop of unzipSequences from index i
RECURSIVE unzipLoop(_, _)
unzipLoop(s, i) ==
    IF i > Len(s) THEN <<>>
    ELSE LET curr == s[i] IN
         IF curr > MAX_INT16
         THEN LET start == curr % FLAGS IN
              IF i + 1 <= Len(s) /\ s[i + 1] > MAX_INT16
              THEN range(start, s[i + 1] % FLAGS) \o unzipLoop(s, i + 2)
              ELSE <<start>> \o unzipLoop(s, i + 1)
         ELSE <<curr>> \o unzipLoop(s, i + 1)

\* unzipSequences(ary), for ary of 16-bit values
unzipSequences(ary) == unique(unzipLoop(sortAsc(ary), 1))

(***************************************************************************)
(* State.                                                                  *)
(***************************************************************************)
VARIABLES
    ids,          \* A: _sendingSession._ids, peer -> last id (-1: no entry)
    closed,       \* A: this.closed
    remoteAddress, \* A: options.remoteAddress names a default peer (peer 0)
    payloads,     \* history: the bytes passed to each send(), by id
    sending,      \* A: _sendingSession, id -> packet generator and its fields
    receiving,    \* B: _receivingSession, id -> buffers array and its fields
    finishNotifyQueue, \* B: _finishNotifyQueue, in insertion order
    network,      \* datagrams in flight
    messages,     \* history: message events B emitted, by id
    delivered,    \* history: payload of the last message event, by id
    drains,       \* history: drain events A emitted, by id
    timeouts,     \* history: timeout events A emitted, by id
    failed,       \* an exception left a callback uncaught
    finLost,      \* FIN and ACK(FIN) datagrams lost so far (FinLossSpec)
    argument,     \* the argument handed to the codec (CodecSpec)
    result,       \* what the codec call returned or threw (CodecSpec)
    last          \* history: the callback that ran last and what it sent

vars == <<ids, closed, remoteAddress, payloads, sending, receiving,
          finishNotifyQueue, network, messages, delivered, drains, timeouts,
          failed, finLost, argument, result, last>>

(***************************************************************************)
(* Datagrams (after the checksum and XOR layers are stripped).             *)
(***************************************************************************)
PshPacket(id, seq, singleTotal, total, data) ==
    [type |-> "PSH", id |-> id, seq |-> seq, singleTotal |-> singleTotal,
     total |-> total, data |-> data]
ReqPacket(id, holes) ==
    [type |-> "REQ", id |-> id, sequences |-> zipSequences(holes)]
FinPacket(id) == [type |-> "FIN", id |-> id]
AckPacket(id, ackType) == [type |-> "ACK", id |-> id, ackType |-> ackType]
\* an ERR packet carrying another code
ErrPacketOtherCode(id, errType) ==
    [type |-> "ERR", id |-> id, errType |-> errType + 1]
ErrPacket(id, errType) == [type |-> "ERR", id |-> id, errType |-> errType]

ToSet(s) == {s[k] : k \in 1 .. Len(s)}
InSeq(x, s) == \E k \in 1 .. Len(s) : s[k] = x

\* socket.send of every datagram of out; the network holds MaxInFlight at most
Transmit(out) ==
    /\ network' = network \cup ToSet(out)
    /\ Cardinality(network') <= MaxInFlight
\* the same for a callback that consumed datagram d
TransmitAfter(d, out) ==
    /\ network' = (network \ {d}) \cup ToSet(out)
    /\ Cardinality(network') <= MaxInFlight

Saturate(n) == Min(n + 1, EventCap)
Remove(f, k) == [j \in (DOMAIN f) \ {k} |-> f[j]]
Put(f, k, v) == [j \in (DOMAIN f) \cup {k} |-> IF j = k THEN v ELSE f[j]]
\* the callback act ran for transfer id, hit: its table held the key, and sent out
Step(act, id, hit, out) == [act |-> act, id |-> id, hit |-> hit, out |-> out]

(***************************************************************************)
(* Sender engine.                                                          *)
(***************************************************************************)
\* the payloads the user sends as transfer id: n distinct bytes
Payloads(id) == {[k \in 1 .. n |-> 10 * id + k] : n \in 1 .. MaxLen}

totalCount(buffer) == (Len(buffer) + MAX_PACKET_SIZE - 1) \div MAX_PACKET_SIZE
\* parallelCount of _generatePacketsBy on an endpoint whose _parallelCount
\* is window
parallelCountFor(window, buffer) == Min(window, totalCount(buffer))
parallelCount(buffer) == parallelCountFor(ParallelCount, buffer)

\* a first burst that is not held below the total count
firstParallelCountUnclamped(window, frequency, buffer) ==
    parallelCountFor(window, buffer) * frequency

\* firstParallelCount on an endpoint whose _frequency is frequency
firstParallelCountFor(window, frequency, buffer) ==
    Min(parallelCountFor(window, buffer) * frequency, totalCount(buffer))

\* buffer.slice(start, end) of the fragment seq
fragment(buffer, seq) ==
    LET start == seq * MAX_PACKET_SIZE
        end == Min(start + MAX_PACKET_SIZE, Len(buffer))
    IN  SubSeq(buffer, start + 1, end)

\* _packData as _generatePacketsBy calls it
packData(id, seq, buffer) ==
    PshPacket(id, seq, parallelCount(buffer), totalCount(buffer),
              fragment(buffer, seq))

\* the first req of _generatePacketsBy
firstRequestFor(window, frequency, buffer) ==
    unzipSequences(
        <<FLAGS, FLAGS + (firstParallelCountFor(window, frequency, buffer) - 1)>>)

\* the parallels of the first next() of _generatePacketsBy(id, buffer): the
\* packets in the order of req
firstParallels(id, buffer, window, frequency) ==
    LET req == firstRequestFor(window, frequency, buffer) IN
    [k \in 1 .. Len(req) |->
        PshPacket(id, req[k], parallelCountFor(window, buffer),
                  totalCount(buffer), fragment(buffer, req[k]))]

\* Session._convertToId(id, rinfo): one key for every pair of a peer and an id;
\* the key of (peer 0, id) is id
_convertToId(id, rinfo) ==
    rinfo * (MAX_COUNTER + SerialSends + MaxApiSends) + id

\* the ids the first n peers of the map _ids were given: with all peers, the
\* number of sessions the sending table was given so far
RECURSIVE allocated(_, _)
allocated(table, n) ==
    IF n = 0 THEN 0 ELSE allocated(table, n - 1) + table[n - 1] + 1

\* a getIdBy that counts the ids of all peers together
getIdByShared(table, rinfo) == allocated(table, NumPeers)

\* SendingSession.getIdBy(rinfo) on the map table.  The constructor of Session
\* never stores options.maxCounter, so this._maxCounter is undefined and
\* "id >= this._maxCounter" is false for every id.
getIdBy(table, rinfo) == table[rinfo] + 1

\* _createPacketGenerator: the generator before its first next().  The object
\* lives as long as the table or an armed timer refers to it.
newGenerator(id, rinfo, buffer, order) ==
    [id |-> id,                     \* _id
     rinfo |-> rinfo,               \* _rinfo
     order |-> order,               \* place in the iteration order of the table
     buffer |-> buffer,
     inTable |-> TRUE,              \* _sendingSession holds it
     idle |-> 0,                    \* time since __lastVisit__, in 30 min
     queues |-> <<>>,               \* _queues: sequence numbers, insertion order
     lastRequestSequences |-> <<>>, \* <<>>: undefined
     interval |-> TRUE,             \* _intervalId armed
     delayTimer |-> FALSE,          \* _delayTimerId armed
     clearFn |-> "undefined",       \* _clearRetrySendingTimer: undefined, live, noop
     retryTimer |-> FALSE,          \* _retrySendingTimer armed
     count |-> -1,                  \* count of the stall closure
     retryPackets |-> <<>>]         \* retryPackets of the stall closure

\* value.__lastVisit__ = Date.now() of get and set
visit(value) == [value EXCEPT !.idle = 0]

_diffRequestSequences(a, b) == SelectSeq(a, LAMBDA x : ~InSeq(x, b))

\* a loop that sets every packet without asking _queues.has(key)
enqueueAlways(q, seqs) == q \o seqs

\* the loop of _trySend that fills _queues
RECURSIVE enqueue(_, _)
enqueue(q, seqs) ==
    IF seqs = <<>> THEN q
    ELSE enqueue(IF InSeq(Head(seqs), q) THEN q ELSE Append(q, Head(seqs)),
                 Tail(seqs))

\* _trySend(gen, requestSequences); defined = FALSE is the call without them
_trySend(gen, defined, requestSequences) ==
    LET rs == IF defined /\ gen.lastRequestSequences # <<>>
              THEN _diffRequestSequences(requestSequences,
                                         gen.lastRequestSequences)
              ELSE requestSequences
    IN  IF defined /\ rs = <<>>
        THEN [gen EXCEPT !.delayTimer = FALSE, !.lastRequestSequences = <<>>]
        ELSE [gen EXCEPT
                !.queues = enqueue(@, IF defined THEN rs
                                      ELSE firstRequestFor(ParallelCount,
                                               Frequency, gen.buffer)),
                !.lastRequestSequences = IF defined THEN rs ELSE <<>>,
                !.delayTimer = TRUE]

\* a _clearRetrySendingTimer that forgets clearTimeout(gen._retrySendingTimer)
clearRetryKeepsTimer(gen) ==
    IF gen.clearFn = "live" THEN [gen EXCEPT !.clearFn = "noop"] ELSE gen

\* gen._clearRetrySendingTimer(received), where the first pacing tick defined it
_clearRetrySendingTimer(gen) ==
    IF gen.clearFn = "live"
    THEN [gen EXCEPT !.clearFn = "noop", !.retryTimer = FALSE, !.count = -1,
                     !.retryPackets = <<>>]
    ELSE gen

\* an onBeforeDestroy without its clearInterval
onBeforeDestroyKeepsInterval(gen) ==
    _clearRetrySendingTimer([gen EXCEPT !.delayTimer = FALSE])

\* onBeforeDestroy of the sending table (gen._intervalId is always set)
sendingOnBeforeDestroy(gen) ==
    _clearRetrySendingTimer([gen EXCEPT !.delayTimer = FALSE,
                                        !.interval = FALSE])

generatorArmed(gen) == gen.interval \/ gen.delayTimer \/ gen.retryTimer

\* a generator that left the table stays only while one of its timers is armed
keepGenerator(table, id, gen) ==
    IF gen.inTable \/ generatorArmed(gen) THEN Put(table, id, gen)
    ELSE Remove(table, id)

sendingHas(id) == id \in DOMAIN sending /\ sending[id].inTable

\* a delete that leaves the entry in the table
sendingDeleteNothing(table, id) == table

\* a delete that takes the entry out of the table and leaves its timers alone
sendingDeleteNoHook(table, id) ==
    IF id \in DOMAIN table
    THEN keepGenerator(table, id, [table[id] EXCEPT !.inTable = FALSE])
    ELSE table

\* _sendingSession.delete(id, rinfo)
sendingDelete(table, id) ==
    IF id \in DOMAIN table /\ table[id].inTable
    THEN keepGenerator(table, id,
             [sendingOnBeforeDestroy(table[id]) EXCEPT !.inTable = FALSE])
    ELSE IF id \in DOMAIN table THEN keepGenerator(table, id, table[id])
    ELSE table

\* send(buffer, rinfo) and the _trySend it schedules with process.nextTick
Send(buffer, rinfo) ==
    LET id == getIdBy(ids, rinfo)
        key == _convertToId(id, rinfo)
        gen == newGenerator(id, rinfo, buffer, allocated(ids, NumPeers))
    IN
    /\ ids' = [ids EXCEPT ![rinfo] = id]
    /\ payloads' = Put(payloads, key, buffer)
    /\ sending' = Put(sending, key, _trySend(gen, FALSE, <<>>))
    /\ last' = Step("send", key, FALSE, <<>>)
    /\ UNCHANGED <<closed, remoteAddress, receiving, finishNotifyQueue, network,
                   messages, delivered, drains, timeouts, failed, finLost, argument,
                   result>>

\* the first maxSize entries of _queues
burst(q) == SubSeq(q, 1, Min(ParallelCount, Len(q)))

\* the setInterval callback of _createPacketGenerator; lost: the network drops
\* what it sends
PacingTick(id, lost) ==
    /\ id \in DOMAIN sending
    /\ sending[id].interval
    /\ sending[id].queues # <<>>
    /\ LET gen == sending[id]
           sent == burst(gen.queues)
           out == [k \in 1 .. Len(sent) |->
                      packData(gen.id, sent[k], gen.buffer)]
           rest == SubSeq(gen.queues, Len(sent) + 1, Len(gen.queues))
       IN  /\ sending' = [sending EXCEPT ![id] =
                IF gen.clearFn = "undefined"
                THEN [gen EXCEPT !.queues = rest, !.clearFn = "live",
                                 !.retryTimer = TRUE, !.count = -1,
                                 !.retryPackets = sent]
                ELSE [gen EXCEPT !.queues = rest]]
           /\ IF lost THEN network' = network ELSE Transmit(out)
           /\ last' = Step("pacing", id, sending[id].inTable, out)
    /\ UNCHANGED <<ids, closed, remoteAddress, payloads, receiving, finishNotifyQueue, messages,
                   delivered, drains, timeouts, failed, finLost, argument, result>>

\* the stall closure _ of _createPacketGenerator, run by _retrySendingTimer
StallFire(id, lost) ==
    /\ id \in DOMAIN sending
    /\ sending[id].retryTimer
    /\ LET gen == sending[id]
           count == gen.count + 1
           out == IF count < STALL_ROUNDS /\ gen.queues = <<>>
                  THEN [k \in 1 .. Len(gen.retryPackets) |->
                            packData(gen.id, gen.retryPackets[k],
                                     gen.buffer)]
                  ELSE <<>>
       IN  /\ IF count < STALL_ROUNDS
              THEN /\ sending' = [sending EXCEPT ![id].count = count]
                   /\ UNCHANGED timeouts
              ELSE \* _sendPshNotResponse
                   /\ sending' = sendingDelete(
                          [sending EXCEPT ![id].retryTimer = FALSE], id)
                   /\ timeouts' = [timeouts EXCEPT ![id] = Saturate(@)]
           /\ IF lost THEN network' = network ELSE Transmit(out)
           /\ last' = Step("stall", id, sending[id].inTable, out)
    /\ UNCHANGED <<ids, closed, remoteAddress, payloads, receiving, finishNotifyQueue, messages,
                   delivered, drains, failed, finLost, argument, result>>

\* the setTimeout callback of _trySend: the suppression window closes
DelayTimerFire(id) ==
    /\ id \in DOMAIN sending
    /\ sending[id].delayTimer
    /\ sending' = keepGenerator(sending, id,
           [sending[id] EXCEPT !.delayTimer = FALSE,
                               !.lastRequestSequences = <<>>])
    /\ last' = Step("window", id, sending[id].inTable, <<>>)
    /\ UNCHANGED <<ids, closed, remoteAddress, payloads, receiving, finishNotifyQueue, network,
                   messages, delivered, drains, timeouts, failed, finLost, argument, result>>

\* _handleReqPacket and the _trySend it schedules with process.nextTick
HandleReq(d) ==
    /\ d \in network /\ d.type = "REQ"
    /\ IF ~sendingHas(d.id)
       THEN /\ TransmitAfter(d, <<ErrPacket(d.id, ERR_NOT_FOUND_ID)>>)
            /\ last' = Step("req", d.id, FALSE,
                         <<ErrPacket(d.id, ERR_NOT_FOUND_ID)>>)
            /\ UNCHANGED <<sending, failed>>
       ELSE IF sending[d.id].clearFn = "undefined"
       THEN \* TypeError: packetsGenerator._clearRetrySendingTimer is not a function
            /\ TransmitAfter(d, <<>>)
            /\ failed' = TRUE
            /\ last' = Step("req", d.id, TRUE, <<>>)
            /\ sending' = [sending EXCEPT ![d.id] = visit(@)]
       ELSE /\ TransmitAfter(d, <<>>)
            /\ sending' = [sending EXCEPT ![d.id] =
                   _trySend(_clearRetrySendingTimer(visit(@)), TRUE,
                            unzipSequences(d.sequences))]
            /\ last' = Step("req", d.id, TRUE, <<>>)
            /\ UNCHANGED failed
    /\ UNCHANGED <<ids, closed, remoteAddress, payloads, receiving, finishNotifyQueue, messages,
                   delivered, drains, timeouts, finLost, argument, result>>

\* a _handleFinPacket that acknowledges inside its if (session)
HandleFinSessionOnly(d) ==
    /\ d \in network /\ d.type = "FIN"
    /\ IF ~sendingHas(d.id)
       THEN /\ TransmitAfter(d, <<>>)
            /\ last' = Step("fin", d.id, FALSE, <<>>)
            /\ UNCHANGED <<sending, drains, failed>>
       ELSE IF sending[d.id].clearFn = "undefined"
       THEN \* TypeError: packetsGenerator._clearRetrySendingTimer is not a function
            /\ TransmitAfter(d, <<>>)
            /\ failed' = TRUE
            /\ last' = Step("fin", d.id, TRUE, <<>>)
            /\ sending' = [sending EXCEPT ![d.id] = visit(@)]
            /\ UNCHANGED drains
       ELSE /\ TransmitAfter(d, <<AckPacket(d.id, "FIN")>>)
            /\ drains' = [drains EXCEPT ![d.id] = Saturate(@)]
            /\ sending' = sendingDelete(
                   [sending EXCEPT ![d.id] = _clearRetrySendingTimer(@)], d.id)
            /\ last' = Step("fin", d.id, TRUE, <<AckPacket(d.id, "FIN")>>)
            /\ UNCHANGED failed
    /\ UNCHANGED <<ids, closed, remoteAddress, payloads, receiving, finishNotifyQueue, messages,
                   delivered, timeouts, finLost, argument, result>>

\* _handleFinPacket
HandleFin(d) ==
    /\ d \in network /\ d.type = "FIN"
    /\ IF ~sendingHas(d.id)
       THEN /\ TransmitAfter(d, <<AckPacket(d.id, "FIN")>>)
            /\ last' = Step("fin", d.id, FALSE, <<AckPacket(d.id, "FIN")>>)
            /\ UNCHANGED <<sending, drains, failed>>
       ELSE IF sending[d.id].clearFn = "undefined"
       THEN \* TypeError: packetsGenerator._clearRetrySendingTimer is not a function
            /\ TransmitAfter(d, <<>>)
            /\ failed' = TRUE
            /\ last' = Step("fin", d.id, TRUE, <<>>)
            /\ sending' = [sending EXCEPT ![d.id] = visit(@)]
            /\ UNCHANGED drains
       ELSE /\ TransmitAfter(d, <<AckPacket(d.id, "FIN")>>)
            /\ drains' = [drains EXCEPT ![d.id] = Saturate(@)]
            /\ sending' = sendingDelete(
                   [sending EXCEPT ![d.id] = _clearRetrySendingTimer(@)], d.id)
            /\ last' = Step("fin", d.id, TRUE, <<AckPacket(d.id, "FIN")>>)
            /\ UNCHANGED failed
    /\ UNCHANGED <<ids, closed, remoteAddress, payloads, receiving, finishNotifyQueue, messages,
                   delivered, timeouts, finLost, argument, result>>

(***************************************************************************)
(* Receiver engine.                                                        *)
(***************************************************************************)
Hole == [filled |-> FALSE, data |-> <<>>]
NoTimer == [armed |-> FALSE, delay |-> "none", singleTotal |-> 0, total |-> 0]

\* the value [] ReceivingSession.get makes for a key it does not hold
newBuffers ==
    [inTable |-> TRUE,
     idle |-> 0,            \* time since __lastVisit__, in 30 min
     slots |-> <<>>,        \* the array: slots[seq + 1] is buffers[seq]
     retryCount |-> 0,      \* _retryCount (set by the first PSH)
     lastIndex |-> 0,       \* _lastIndex || 0
     used |-> FALSE,        \* _used
     timer |-> NoTimer]     \* _delayTimerId armed, with the info it captured

receivingHas(id) == id \in DOMAIN receiving /\ receiving[id].inTable

\* a get that replaces every delivered entry, whatever its age
receivingGetRecyclesUsed(id) ==
    IF receivingHas(id) /\ ~receiving[id].used
    THEN visit(receiving[id])
    ELSE newBuffers

\* ReceivingSession.get(id, rinfo): the value it returns.  An entry that is
\* replaced went through _tryDelete, which stopped its timer.
receivingGet(id) ==
    IF /\ receivingHas(id)
       /\ ~(receiving[id].used /\ receiving[id].idle >= RecycleAge)
    THEN visit(receiving[id])
    ELSE newBuffers

\* an onBeforeDestroy that leaves the hole-check timer running
onBeforeDestroyKeepsTimer(buffers) == buffers

\* onBeforeDestroy of the receiving table
receivingOnBeforeDestroy(buffers) == [buffers EXCEPT !.timer = NoTimer]

\* a buffers array that left the table stays only while its timer is armed
keepBuffers(table, id, buffers) ==
    IF buffers.inTable \/ buffers.timer.armed THEN Put(table, id, buffers)
    ELSE Remove(table, id)

\* _receivingSession.delete(id, rinfo)
receivingDelete(table, id) ==
    IF id \in DOMAIN table /\ table[id].inTable
    THEN keepBuffers(table, id,
             [receivingOnBeforeDestroy(table[id]) EXCEPT !.inTable = FALSE])
    ELSE IF id \in DOMAIN table THEN keepBuffers(table, id, table[id])
    ELSE table

\* Buffer.isBuffer(buffers[seq])
isBuffer(slots, seq) == seq < Len(slots) /\ slots[seq + 1].filled

\* buffers[seq] = data
store(slots, seq, data) ==
    [k \in 1 .. Max(Len(slots), seq + 1) |->
        IF k = seq + 1 THEN [filled |-> TRUE, data |-> data]
        ELSE IF k <= Len(slots) THEN slots[k] ELSE Hole]

\* a _checkBuffersFull without its loop over the slots
checkBuffersLengthOnly(slots, total) == Len(slots) = total

_checkBuffersFull(slots, total) ==
    /\ Len(slots) = total
    /\ \A i \in 0 .. (total - 1) : isBuffer(slots, i)

\* the loop of _getHolesFrom from index i
RECURSIVE holesLoop(_, _, _, _, _)
holesLoop(slots, singleTotal, total, i, ary) ==
    IF i < total /\ Len(ary) < singleTotal
    THEN holesLoop(slots, singleTotal, total, i + 1,
                   IF isBuffer(slots, i) THEN ary ELSE Append(ary, i))
    ELSE ary

_getHolesFrom(buffers, singleTotal, total) ==
    holesLoop(buffers.slots, singleTotal, total, buffers.lastIndex, <<>>)

\* Buffer.concat(buffers)
RECURSIVE concat(_)
concat(slots) ==
    IF slots = <<>> THEN <<>> ELSE Head(slots).data \o concat(Tail(slots))

\* _handlePshPacket
HandlePsh(d) ==
    /\ d \in network /\ d.type = "PSH"
    /\ LET buffers == [receivingGet(d.id) EXCEPT !.retryCount = 0] IN
       receiving' = Put(receiving, d.id,
           IF isBuffer(buffers.slots, d.seq) THEN buffers
           ELSE [buffers EXCEPT
                   !.slots = store(@, d.seq, d.data),
                   !.timer = [armed |-> TRUE, delay |-> "LATENCY",
                              singleTotal |-> d.singleTotal,
                              total |-> d.total]])
    /\ TransmitAfter(d, <<>>)
    /\ last' = Step("psh", d.id, receivingHas(d.id), <<>>)
    /\ UNCHANGED <<ids, closed, remoteAddress, payloads, sending, finishNotifyQueue, messages,
                   delivered, drains, timeouts, failed, finLost, argument, result>>

\* the setTimeout callback of _delayResponsePshPacket: _responsePshPacket,
\* then buffers._retryCount += 1
HoleCheck(id) ==
    /\ id \in DOMAIN receiving
    /\ receiving[id].timer.armed
    /\ LET buffers == receiving[id]
           info == buffers.timer
           holes == _getHolesFrom(buffers, info.singleTotal, info.total)
       IN  IF _checkBuffersFull(buffers.slots, info.total)
           THEN \* _finish
                /\ Len(finishNotifyQueue) < MaxNotify
                /\ receiving' = keepBuffers(receiving, id,
                       [buffers EXCEPT !.used = TRUE, !.slots = <<>>,
                                       !.timer = NoTimer,
                                       !.retryCount = @ + 1])
                /\ finishNotifyQueue' =
                       Append(finishNotifyQueue, [id |-> id, n |-> -1])
                /\ messages' = [messages EXCEPT ![id] = Saturate(@)]
                /\ delivered' = [delivered EXCEPT ![id] = concat(buffers.slots)]
                /\ Transmit(<<FinPacket(id)>>)
                /\ last' = Step("check", id, buffers.inTable, <<FinPacket(id)>>)
           ELSE IF buffers.retryCount > RETRY_REQUEST_COUNT
           THEN \* _notifyReqTimeout
                /\ receiving' = receivingDelete(
                       [receiving EXCEPT ![id].timer = NoTimer], id)
                /\ network' = network
                /\ last' = Step("check", id, buffers.inTable, <<>>)
                /\ UNCHANGED <<finishNotifyQueue, messages, delivered>>
           ELSE \* _request, _delayResponsePshPacket(..., this._RTT)
                /\ receiving' = [receiving EXCEPT ![id] =
                       [buffers EXCEPT
                          !.lastIndex = IF holes # <<>> THEN holes[1]
                                        ELSE info.total,
                          !.timer = [info EXCEPT !.delay = "RTT"],
                          !.retryCount = @ + 1]]
                /\ Transmit(<<ReqPacket(id, holes)>>)
                /\ last' = Step("check", id, buffers.inTable,
                                <<ReqPacket(id, holes)>>)
                /\ UNCHANGED <<finishNotifyQueue, messages, delivered>>
    /\ UNCHANGED <<ids, closed, remoteAddress, payloads, sending, drains, timeouts, failed,
                   finLost, argument, result>>

\* a finish-notify callback that counts the rounds and sends nothing
RECURSIVE notifyLoopSilent(_)
notifyLoopSilent(q) ==
    IF q = <<>> THEN [queue |-> <<>>, out |-> <<>>]
    ELSE LET item == Head(q)
             rest == notifyLoopSilent(Tail(q))
         IN  IF item.n # -1 /\ item.n > RETRY_NOTIFIY_FIN_COUNT
             THEN rest
             ELSE [queue |-> <<[item EXCEPT !.n = IF @ = -1 THEN 0 ELSE @ + 1]>>
                                \o rest.queue,
                   out |-> rest.out]

\* the finish-notify setInterval callback of the constructor, item by item
RECURSIVE notifyLoop(_)
notifyLoop(q) ==
    IF q = <<>> THEN [queue |-> <<>>, out |-> <<>>]
    ELSE LET item == Head(q)
             rest == notifyLoop(Tail(q))
         IN  IF item.n # -1 /\ item.n > RETRY_NOTIFIY_FIN_COUNT
             THEN rest
             ELSE [queue |-> <<[item EXCEPT !.n = IF @ = -1 THEN 0 ELSE @ + 1]>>
                                \o rest.queue,
                   out |-> <<FinPacket(item.id)>> \o rest.out]

NotifyTick ==
    /\ finishNotifyQueue # <<>>
    /\ LET r == notifyLoop(finishNotifyQueue) IN
       /\ finishNotifyQueue' = r.queue
       /\ Transmit(r.out)
       /\ last' = Step("notify", -1, TRUE, r.out)
    /\ UNCHANGED <<ids, closed, remoteAddress, payloads, sending, receiving, messages, delivered,
                   drains, timeouts, failed, finLost, argument, result>>

\* the loop of _handleAckPacket: delete the first item of this id
RECURSIVE ackLoop(_, _)
ackLoop(q, id) ==
    IF q = <<>> THEN <<>>
    ELSE IF Head(q).id = id THEN Tail(q)
    ELSE <<Head(q)>> \o ackLoop(Tail(q), id)

\* _handleAckPacket
HandleAck(d) ==
    /\ d \in network /\ d.type = "ACK"
    /\ finishNotifyQueue' = IF d.ackType = "FIN"
                            THEN ackLoop(finishNotifyQueue, d.id)
                            ELSE finishNotifyQueue
    /\ TransmitAfter(d, <<>>)
    /\ last' = Step("ack", d.id,
                    \E k \in 1 .. Len(finishNotifyQueue) :
                        finishNotifyQueue[k].id = d.id, <<>>)
    /\ UNCHANGED <<ids, closed, remoteAddress, payloads, sending, receiving, messages, delivered,
                   drains, timeouts, failed, finLost, argument, result>>

\* _handleErrPacket
HandleErr(d) ==
    /\ d \in network /\ d.type = "ERR"
    /\ receiving' = IF d.errType = ERR_NOT_FOUND_ID
                    THEN receivingDelete(receiving, d.id)
                    ELSE receiving
    /\ TransmitAfter(d, <<>>)
    /\ last' = Step("err", d.id, receivingHas(d.id), <<>>)
    /\ UNCHANGED <<ids, closed, remoteAddress, payloads, sending, finishNotifyQueue, messages,
                   delivered, drains, timeouts, failed, finLost, argument, result>>

(***************************************************************************)
(* The network and the specifications.                                     *)
(***************************************************************************)
\* the codec was not called
NoCall == [op |-> "none", threw |-> FALSE, value |-> <<>>]

Init ==
    /\ ids = [p \in Peers |-> -1]
    /\ closed = FALSE
    /\ remoteAddress = FALSE
    /\ argument = [isArray |-> TRUE, items |-> <<>>]
    /\ result = NoCall
    /\ payloads = <<>>
    /\ sending = <<>>
    /\ receiving = <<>>
    /\ finishNotifyQueue = <<>>
    /\ network = {}
    /\ messages = [i \in Ids |-> 0]
    /\ delivered = [i \in Ids |-> <<>>]
    /\ drains = [i \in Keys |-> 0]
    /\ timeouts = [i \in Keys |-> 0]
    /\ failed = FALSE
    /\ finLost = 0
    /\ last = Step("init", -1, FALSE, <<>>)

UserSend ==
    /\ ids[0] + 1 < MaxSends
    /\ \E i \in Ids :
           i = getIdBy(ids, 0) /\ \E buffer \in Payloads(i) : Send(buffer, 0)
Pacing == \E i \in Ids : PacingTick(i, FALSE)
Stall == \E i \in Ids : StallFire(i, FALSE)
Window == \E i \in Ids : DelayTimerFire(i)
Check == \E i \in Ids : HoleCheck(i)
ReceiveReq == \E d \in network : HandleReq(d)
ReceiveFin == \E d \in network : HandleFin(d)
ReceivePsh == \E d \in network : HandlePsh(d)
ReceiveAck == \E d \in network : HandleAck(d)
ReceiveErr == \E d \in network : HandleErr(d)
\* UDP loses a datagram
Loss ==
    \E d \in network :
        /\ network' = network \ {d}
        /\ last' = Step("lose", d.id, FALSE, <<>>)
        /\ UNCHANGED <<ids, closed, remoteAddress, payloads, sending,
                       receiving, finishNotifyQueue, messages, delivered,
                       drains, timeouts, failed, finLost, argument, result>>

\* a lossy network and timers that may expire at any moment
Next ==
    \/ UserSend
    \/ Pacing
    \/ Stall
    \/ Window
    \/ Check
    \/ NotifyTick
    \/ ReceiveReq
    \/ ReceiveFin
    \/ ReceivePsh
    \/ ReceiveAck
    \/ ReceiveErr
    \/ Loss

Spec == Init /\ [][Next]_vars

\* the user sends the next payload from the drain callback of the previous
\* one: the previous transfer drained and nothing of it is left on the way
UserSendNext ==
    /\ IF ids[0] = -1 THEN TRUE
       ELSE drains[ids[0]] > 0 /\ network = {} /\ finishNotifyQueue = <<>>
    /\ \E i \in Ids :
           i = getIdBy(ids, 0) /\ \E buffer \in Payloads(i) : Send(buffer, 0)

\* transfers one after the other over a network that delays but does not lose
SerialNext ==
    \/ UserSendNext
    \/ Pacing
    \/ Stall
    \/ Window
    \/ Check
    \/ ReceiveReq
    \/ ReceiveFin
    \/ ReceivePsh
    \/ ReceiveAck
    \/ ReceiveErr

SerialSpec == Init /\ [][SerialNext]_vars

\* a network that delays and reorders but loses nothing
LosslessNext ==
    \/ UserSend
    \/ Pacing
    \/ Stall
    \/ Window
    \/ Check
    \/ NotifyTick
    \/ ReceiveReq
    \/ ReceiveFin
    \/ ReceivePsh
    \/ ReceiveAck
    \/ ReceiveErr

LosslessSpec == Init /\ [][LosslessNext]_vars

\* the user sends to a peer that nothing reaches
UserSendAny ==
    \E i \in Ids :
        i = getIdBy(ids, 0) /\ \E buffer \in Payloads(i) : Send(buffer, 0)
PacingDropped == \E i \in Ids : PacingTick(i, TRUE)
StallDropped == \E i \in Ids : StallFire(i, TRUE)

\* every datagram from A to B is dropped
DropNext ==
    \/ UserSendAny
    \/ PacingDropped
    \/ StallDropped

\* an armed timer expires
DropSpec ==
    /\ Init
    /\ [][DropNext]_vars
    /\ \A i \in Ids : WF_vars(PacingTick(i, TRUE))
    /\ \A i \in Ids : WF_vars(StallFire(i, TRUE))

\* the network loses a FIN or an ACK(FIN), FinLossBudget of them at most
FinLoss ==
    \E d \in network :
        /\ d.type \in {"FIN", "ACK"}
        /\ finLost < FinLossBudget
        /\ finLost' = finLost + 1
        /\ network' = network \ {d}
        /\ last' = Step("lose", d.id, FALSE, <<>>)
        /\ UNCHANGED <<ids, closed, remoteAddress, payloads, sending,
                       receiving, finishNotifyQueue, messages, delivered,
                       drains, timeouts, failed, argument, result>>
\* the stall timer in its re-send rounds: the expiry that gives up comes
\* (RTT + 1000) * (1 + 1.8 + 1.8^2 + 1.8^3) = 14.66 s after the first pacing
\* tick, after the twelve 1 s rounds of the finish-notify queue
StallResend ==
    \E i \in Ids :
        /\ i \in DOMAIN sending
        /\ sending[i].count + 1 < STALL_ROUNDS
        /\ StallFire(i, FALSE)

\* a round of the finish-notify queue: the FIN and the ACK(FIN) of the round
\* before, sent 1 s earlier, have arrived or are lost
NotifyRound ==
    /\ \A d \in network : d.type \notin {"FIN", "ACK"}
    /\ NotifyTick

\* a hole check: the one that follows a REQ comes RTT later, when the REQ
\* has arrived
CheckRound ==
    \E i \in Ids :
        /\ i \in DOMAIN receiving
        /\ receiving[i].timer.delay = "RTT" =>
               \A d \in network : d.type # "REQ"
        /\ HoleCheck(i)

\* only FIN and ACK(FIN) datagrams are lost
FinLossNext ==
    \/ UserSend
    \/ Pacing
    \/ StallResend
    \/ Window
    \/ CheckRound
    \/ NotifyRound
    \/ ReceiveReq
    \/ ReceiveFin
    \/ ReceivePsh
    \/ ReceiveAck
    \/ ReceiveErr
    \/ FinLoss

\* an armed timer expires, also one whose callback has to wait now and then,
\* and a datagram on the way arrives unless it is lost
FinLossSpec ==
    /\ Init
    /\ [][FinLossNext]_vars
    /\ WF_vars(Pacing) /\ WF_vars(Window) /\ SF_vars(CheckRound)
    /\ SF_vars(NotifyRound)
    /\ WF_vars(ReceiveReq) /\ WF_vars(ReceiveFin) /\ WF_vars(ReceivePsh)
    /\ WF_vars(ReceiveAck) /\ WF_vars(ReceiveErr)

(***************************************************************************)
(* The user's calls: send() with its argument checks, and close().         *)
(***************************************************************************)
\* a send() without the early return for an empty buffer
sendOutcomeNoEmpty(args, hasDefault, isClosed) ==
    IF args.rinfo = -1 /\ ~hasDefault THEN "Missing"
    ELSE IF isClosed THEN "State"
    ELSE IF ~args.isBuffer THEN "InvalidArgument"
    ELSE IF args.length > MAX_BUFFER_SIZE THEN "Range"
    ELSE "id"

\* a send() that refuses a buffer of MAX_BUFFER_SIZE bytes
sendOutcomeRangeInclusive(args, hasDefault, isClosed) ==
    IF args.rinfo = -1 /\ ~hasDefault THEN "Missing"
    ELSE IF isClosed THEN "State"
    ELSE IF ~args.isBuffer THEN "InvalidArgument"
    ELSE IF args.length = 0 THEN "null"
    ELSE IF args.length >= MAX_BUFFER_SIZE THEN "Range"
    ELSE "id"

\* the checks of send() in the order the code makes them: the error thrown,
\* "null" for the early return, "id" when the call goes on to getIdBy
sendOutcome(args, hasDefault, isClosed) ==
    IF args.rinfo = -1 /\ ~hasDefault THEN "Missing"
    ELSE IF isClosed THEN "State"
    ELSE IF ~args.isBuffer THEN "InvalidArgument"
    ELSE IF args.length = 0 THEN "null"
    ELSE IF args.length > MAX_BUFFER_SIZE THEN "Range"
    ELSE "id"

\* send(buffer, rinfo) as the user calls it; the bytes of an accepted buffer
\* are those of Payloads for the key the transfer gets
SendCall(args) ==
    LET outcome == sendOutcome(args, remoteAddress, closed)
        rinfo == IF args.rinfo = -1 THEN 0 ELSE args.rinfo
        key == _convertToId(getIdBy(ids, rinfo), rinfo)
        buffer == [k \in 1 .. (IF args.isBuffer THEN args.length ELSE 0) |->
                       10 * key + k]
    IN  IF outcome = "id"
        THEN Send(buffer, rinfo)
        ELSE /\ last' = [act |-> outcome, id |-> -1, hit |-> FALSE,
                         out |-> <<>>, args |-> args]
             /\ UNCHANGED <<ids, closed, remoteAddress, payloads, sending,
                            receiving, finishNotifyQueue, network, messages,
                            delivered, drains, timeouts, failed, finLost,
                            argument, result>>

\* the entries of the sending table
entries(table) == {k \in DOMAIN table : table[k].inTable}

\* the entries whose onBeforeDestroy throws: the first pacing tick has not
\* defined _clearRetrySendingTimer yet
throwing(table) == {k \in entries(table) : table[k].clearFn = "undefined"}

\* the place in the iteration where SendingSession.clear() throws
firstThrow(table) ==
    CHOOSE n \in {table[k].order : k \in throwing(table)} :
        \A k \in throwing(table) : n <= table[k].order

\* SendingSession.clear() interrupted by the TypeError of the entry at place n:
\* the hooks of the entries before it ran, its own hook cleared the suppression
\* timer and the pacing interval, and no entry left the table
clearThrows(table, n) ==
    [k \in DOMAIN table |->
        IF ~table[k].inTable \/ table[k].order > n THEN table[k]
        ELSE IF table[k].order = n
        THEN [table[k] EXCEPT !.delayTimer = FALSE, !.interval = FALSE]
        ELSE sendingOnBeforeDestroy(table[k])]

\* SendingSession.clear() when no hook throws: every entry leaves the table
\* with its timers cancelled
clearAll(table) ==
    LET left == [k \in DOMAIN table |->
                    IF table[k].inTable
                    THEN [sendingOnBeforeDestroy(table[k]) EXCEPT
                             !.inTable = FALSE]
                    ELSE table[k]]
        kept == {k \in DOMAIN table : generatorArmed(left[k])}
    IN  [k \in kept |-> left[k]]

\* close().  Endpoint A receives no transfer: its receiving table and its
\* finish-notify queue are empty.
Close ==
    /\ IF closed
       THEN /\ last' = Step("closeAgain", -1, FALSE, <<>>)
            /\ UNCHANGED <<ids, closed, sending>>
       ELSE IF throwing(sending) # {}
       THEN \* TypeError: val._clearRetrySendingTimer is not a function
            /\ closed' = TRUE
            /\ sending' = clearThrows(sending, firstThrow(sending))
            /\ last' = Step("closeThrow", -1, FALSE, <<>>)
            /\ UNCHANGED ids
       ELSE /\ closed' = TRUE
            /\ sending' = clearAll(sending)
            /\ ids' = [p \in Peers |-> -1]
            /\ last' = Step("close", -1, FALSE, <<>>)
    /\ UNCHANGED <<remoteAddress, payloads, receiving, finishNotifyQueue,
                   network, messages, delivered, drains, timeouts, failed,
                   finLost, argument, result>>

\* the endpoint as constructed, with or without options.remoteAddress
ApiInit ==
    /\ ids = [p \in Peers |-> -1]
    /\ closed = FALSE
    /\ remoteAddress \in BOOLEAN
    /\ argument = [isArray |-> TRUE, items |-> <<>>]
    /\ result = NoCall
    /\ payloads = <<>>
    /\ sending = <<>>
    /\ receiving = <<>>
    /\ finishNotifyQueue = <<>>
    /\ network = {}
    /\ messages = [i \in Ids |-> 0]
    /\ delivered = [i \in Ids |-> <<>>]
    /\ drains = [i \in Keys |-> 0]
    /\ timeouts = [i \in Keys |-> 0]
    /\ failed = FALSE
    /\ finLost = 0
    /\ last = Step("init", -1, FALSE, <<>>)

\* the arguments of a send(): a Buffer of length bytes or something else, and
\* rinfo, a peer or -1 when the user names none
UserCall ==
    \E args \in [isBuffer : BOOLEAN, length : 0 .. (MAX_BUFFER_SIZE + 1),
                 rinfo : Peers \cup {-1}] :
        /\ sendOutcome(args, remoteAddress, closed) = "id" =>
               allocated(ids, NumPeers) < MaxApiSends
        /\ SendCall(args)
ApiPacing == \E k \in Keys : PacingTick(k, TRUE)
ApiStall == \E k \in Keys : StallFire(k, TRUE)
ApiWindow == \E k \in Keys : DelayTimerFire(k)

\* the user sends to peers that nothing reaches, and closes the endpoint
ApiNext ==
    \/ UserCall
    \/ Close
    \/ ApiPacing
    \/ ApiStall
    \/ ApiWindow

ApiSpec == ApiInit /\ [][ApiNext]_vars

(***************************************************************************)
(* The codec called on its own.                                            *)
(***************************************************************************)
\* the sequence numbers of CodecSpec: the smallest ones and the largest; the
\* smallest ones with the range mark; and a negative number
Plain == (0 .. (CodecSpan - 1)) \cup {MAX_INT16}
Marked == {v + FLAGS : v \in 0 .. (CodecSpan - 1)}

RECURSIVE ListsUpTo(_, _)
ListsUpTo(S, n) ==
    IF n = 0 THEN {<<>>}
    ELSE LET shorter == ListsUpTo(S, n - 1) IN
         shorter \cup {Append(s, x) : s \in shorter, x \in S}

Returns(op, value) == [op |-> op, threw |-> FALSE, value |-> value]
Throws(op) == [op |-> op, threw |-> TRUE, value |-> <<>>]

codecFrame ==
    UNCHANGED <<ids, closed, remoteAddress, payloads, sending, receiving,
                finishNotifyQueue, network, messages, delivered, drains,
                timeouts, failed, finLost, argument, last>>

\* utils.zipSequences(argument)
Zip ==
    /\ result' = IF ~argument.isArray \/ zipThrows(argument.items)
                 THEN Throws("zip")
                 ELSE Returns("zip", zipSequences(argument.items))
    /\ codecFrame

\* utils.unzipSequences(argument)
Unzip ==
    /\ result' = IF ~argument.isArray THEN Throws("unzip")
                 ELSE Returns("unzip", unzipSequences(argument.items))
    /\ codecFrame

\* utils.unzipSequences(utils.zipSequences(argument))
ZipUnzip ==
    /\ result' = IF ~argument.isArray \/ zipThrows(argument.items)
                 THEN Throws("unzipzip")
                 ELSE Returns("unzipzip",
                              unzipSequences(zipSequences(argument.items)))
    /\ codecFrame

\* what a caller may hand to the codec: a list, or something that is no array
CodecInit ==
    /\ argument \in
           {[isArray |-> TRUE, items |-> s] :
               s \in ListsUpTo(Plain \cup Marked \cup {-1}, CodecLen)}
               \cup {[isArray |-> FALSE, items |-> <<>>]}
    /\ result = NoCall
    /\ ids = [p \in Peers |-> -1]
    /\ closed = FALSE
    /\ remoteAddress = FALSE
    /\ payloads = <<>>
    /\ sending = <<>>
    /\ receiving = <<>>
    /\ finishNotifyQueue = <<>>
    /\ network = {}
    /\ messages = [i \in Ids |-> 0]
    /\ delivered = [i \in Ids |-> <<>>]
    /\ drains = [i \in Keys |-> 0]
    /\ timeouts = [i \in Keys |-> 0]
    /\ failed = FALSE
    /\ finLost = 0
    /\ last = Step("init", -1, FALSE, <<>>)

CodecNext ==
    \/ Zip
    \/ Unzip
    \/ ZipUnzip

CodecSpec == CodecInit /\ [][CodecNext]_vars

(***************************************************************************)
(* The integrity layers of a datagram: libs/checksum.js and utils.xor.     *)
(***************************************************************************)
\* buffer.readUInt16BE(i), i counted from 0
readUInt16BE(buffer, i) == buffer[i + 1] * 256 + buffer[i + 2]

\* the for loop of sum from offset i: the 16-bit words below len
RECURSIVE words(_, _, _)
words(buffer, i, len) ==
    IF i < len THEN readUInt16BE(buffer, i) + words(buffer, i + 2, len) ELSE 0

\* checksum before the while loop of sum: the words, and the last byte of a
\* buffer of odd length as the high byte of one more word
total(buffer) ==
    LET parity == Len(buffer) % 2 IN
    words(buffer, 0, Len(buffer) - parity)
        + (IF parity = 1 THEN buffer[Len(buffer)] * 256 ELSE 0)

\* the do-while loop of sum: checksum += sum & 0xFFFF; sum = sum >>> 16, as
\* long as what is left of sum is above 0xFFFF
RECURSIVE foldInner(_, _)
foldInner(checksum, s) ==
    LET added == checksum + (s % 65536)
        left == s \div 65536
    IN  IF left > 65535 THEN foldInner(added, left) ELSE added

\* the while loop of sum
RECURSIVE fold(_)
fold(checksum) ==
    IF checksum > 65535 THEN fold(foldInner(0, checksum)) ELSE checksum

\* sum(buffer) of checksum.js
sum(buffer) == fold(total(buffer))

\* checksum.verify
verify(buffer) == sum(buffer) = 65535

\* a generate that prepends the sum itself
generateNoComplement(buffer) ==
    LET checksum == sum(buffer) IN
    <<checksum \div 256, checksum % 256>> \o buffer

\* checksum.generate: ~sum(buffer) & 0xFFFF in front of the buffer
generate(buffer) ==
    LET checksum == 65535 - sum(buffer) IN
    <<checksum \div 256, checksum % 256>> \o buffer

\* a ^ b of two numbers of n bits
RECURSIVE bitXor(_, _, _)
bitXor(a, b, n) ==
    IF n = 0 THEN 0
    ELSE ((a + b) % 2) + 2 * bitXor(a \div 2, b \div 2, n - 1)

\* an xor that runs its word loop from the first word
xorFromFirstWord(buffer) ==
    [k \in 1 .. Len(buffer) |->
        bitXor(buffer[k], buffer[((k - 1) % UNIT) + 1], 8)]

\* utils.xor of a Buffer: the copy it returns.  A word xor-ed with the first
\* word is, byte by byte, the byte xor-ed with the byte of the first word at
\* the same place; the bytes after the last whole word are xor-ed with the
\* first byte, (pw >>> 24) & 0xFF.
xor(buffer) ==
    LET len == Len(buffer)
        count == len \div UNIT
    IN  IF len <= UNIT THEN buffer
        ELSE [k \in 1 .. len |->
                 IF k - 1 < UNIT THEN buffer[k]
                 ELSE IF k - 1 < count * UNIT
                 THEN bitXor(buffer[k], buffer[((k - 1) % UNIT) + 1], 8)
                 ELSE bitXor(buffer[k], buffer[1], 8)]

\* sum(argument), as verify and generate call it
Sum ==
    /\ argument.isBuffer
    /\ result' = Returns("sum", sum(argument.bytes))
    /\ codecFrame

\* checksum.verify(checksum.generate(argument))
GenerateVerify ==
    /\ argument.isBuffer
    /\ result' = [op |-> "verify", threw |-> FALSE,
                  value |-> generate(argument.bytes),
                  ok |-> verify(generate(argument.bytes))]
    /\ codecFrame

\* utils.xor(argument)
Xor ==
    /\ result' = IF ~argument.isBuffer THEN Throws("xor")
                 ELSE Returns("xor", xor(argument.bytes))
    /\ codecFrame

\* utils.xor(utils.xor(argument))
XorXor ==
    /\ result' = IF ~argument.isBuffer THEN Throws("xorxor")
                 ELSE Returns("xorxor", xor(xor(argument.bytes)))
    /\ codecFrame

\* what a caller may hand to xor: a Buffer of the bytes 0x00, 0x10 and 0xFF,
\* or something that is none
BytesInit ==
    /\ argument \in
           {[isBuffer |-> TRUE, bytes |-> s] :
               s \in ListsUpTo({0, 16, 255}, BufLen)}
               \cup {[isBuffer |-> FALSE, bytes |-> <<>>]}
    /\ result = NoCall
    /\ ids = [p \in Peers |-> -1]
    /\ closed = FALSE
    /\ remoteAddress = FALSE
    /\ payloads = <<>>
    /\ sending = <<>>
    /\ receiving = <<>>
    /\ finishNotifyQueue = <<>>
    /\ network = {}
    /\ messages = [i \in Ids |-> 0]
    /\ delivered = [i \in Ids |-> <<>>]
    /\ drains = [i \in Keys |-> 0]
    /\ timeouts = [i \in Keys |-> 0]
    /\ failed = FALSE
    /\ finLost = 0
    /\ last = Step("init", -1, FALSE, <<>>)

BytesNext ==
    \/ Sum
    \/ GenerateVerify
    \/ Xor
    \/ XorXor

BytesSpec == BytesInit /\ [][BytesNext]_vars

(***************************************************************************)
(* The receive path on the bytes of a datagram: _receive, _parse and the   *)
(* first line of _handleAckPacket.                                         *)
(***************************************************************************)
\* the codes UDP_CODE_TYPES knows
KnownCodes ==
    {UDP_PSH_CODE, UDP_REQ_CODE, UDP_FIN_CODE, UDP_ACK_CODE, UDP_ERR_CODE}

\* _parseHeader reads the type code at 0 and the id at 2..5; _parse then
\* reads the fields of the type from 6: three 16-bit fields of a PSH, 16-bit
\* values up to the end of a REQ, one byte of an ACK, two of an ERR.  A read
\* beyond the end of the buffer throws RangeError.
parseOutcome(buffer) ==
    LET len == Len(buffer) IN
    IF len < 6 THEN "RangeError"
    ELSE IF buffer[1] \notin KnownCodes THEN "null"
    ELSE IF buffer[1] = UDP_PSH_CODE
    THEN (IF len < 12 THEN "RangeError" ELSE "PSH")
    ELSE IF buffer[1] = UDP_REQ_CODE
    THEN (IF (len - 6) % 2 = 1 THEN "RangeError" ELSE "REQ")
    ELSE IF buffer[1] = UDP_FIN_CODE THEN "FIN"
    ELSE IF buffer[1] = UDP_ACK_CODE
    THEN (IF len < 7 THEN "RangeError"
          ELSE IF buffer[7] = UDP_FIN_CODE THEN "ACK"
          ELSE IF buffer[7] \in KnownCodes THEN "ACK other"
          ELSE "ACK undefined")
    ELSE (IF len < 8 THEN "RangeError" ELSE "ERR")

\* _receive(msg): how the call ends.  "checksum" and "null" are the two
\* returns of _receive without an event; an ACK whose ack type is not FIN is
\* emitted and falls through the switch of _handleAckPacket; an ACK whose
\* code UDP_CODE_TYPES does not know has ackType undefined, and the template
\* of the first line of _handleAckPacket calls ackType.toString().
receiveOutcome(msg) ==
    LET buffer == xor(msg) IN
    IF ~verify(buffer) THEN "checksum"
    ELSE LET parsed == parseOutcome(SubSeq(buffer, 3, Len(buffer))) IN
         IF parsed = "ACK undefined" THEN "TypeError" ELSE parsed

\* _send(buffer): the bytes put on the wire
wire(buffer) == xor(generate(buffer))

\* the header _sendXxxPacket builds for a type code and the id 0
header(code) == <<code, 0, 0, 0, 0, 0>>

\* the datagrams of RawSpec
RawDatagrams ==
    LET \* datagrams whose bytes arrived damaged
        damaged ==
            {<<>>,
             [wire(header(UDP_FIN_CODE)) EXCEPT ![1] = (@ + 1) % 256],
             [wire(header(UDP_ACK_CODE) \o <<UDP_FIN_CODE>>)
                  EXCEPT ![9] = (@ + 1) % 256]}
        \* datagrams with a type code outside 1..5
        unknownType == {wire(header(c)) : c \in {9}}
        \* datagrams that end before the fixed fields of their type do
        short ==
            {wire(<<>>),
             wire(SubSeq(header(UDP_FIN_CODE), 1, 5)),
             wire(header(UDP_PSH_CODE)),
             wire(header(UDP_REQ_CODE) \o <<0, 1, 0>>),
             wire(header(UDP_ACK_CODE)),
             wire(header(UDP_ERR_CODE) \o <<0>>)}
        \* ACK datagrams whose ack type is not FIN: of a known code, of none
        ackOther ==
            {wire(header(UDP_ACK_CODE) \o <<c>>) : c \in {UDP_PSH_CODE, 9}}
    IN  damaged \cup unknownType \cup short \cup ackOther

\* _receive applied to each of them
RawOutcome == [msg \in RawDatagrams |-> receiveOutcome(msg)]

\* the socket's "message" event with the datagram msg, which is none of the
\* packets the handlers above take.  Nothing catches what _receive throws.
ReceiveAny ==
    \E msg \in RawDatagrams :
        LET outcome == RawOutcome[msg]
            threw == outcome \in {"RangeError", "TypeError"}
        IN  /\ outcome \in {"checksum", "null", "RangeError", "TypeError",
                            "ACK other"}
            /\ failed' = (failed \/ threw)
            /\ result' = IF threw THEN Throws("receive")
                         ELSE Returns("receive", <<>>)
            /\ last' = [act |-> "raw", id |-> -1, hit |-> FALSE,
                        out |-> <<>>, msg |-> msg]
            /\ UNCHANGED <<ids, closed, remoteAddress, payloads, sending,
                           receiving, finishNotifyQueue, network, messages,
                           delivered, drains, timeouts, finLost, argument>>

\* a transfer over a network that loses nothing, and datagrams of any kind
\* arriving in between
RawNext ==
    \/ UserSend
    \/ Pacing
    \/ Stall
    \/ Window
    \/ Check
    \/ NotifyTick
    \/ ReceiveReq
    \/ ReceiveFin
    \/ ReceivePsh
    \/ ReceiveAck
    \/ ReceiveErr
    \/ ReceiveAny

RawSpec == Init /\ [][RawNext]_vars

(***************************************************************************)
(* The sender engine facing a peer that sends what it likes: REQs naming   *)
(* any sequences, FINs at any moment.  What A sends is dropped on the way  *)
(* (last.out keeps it); the replies to the peer's datagrams are consumed.  *)
(***************************************************************************)
\* a REQ of the peer on its way to A, naming any sequences of 0 .. MaxSeq
PeerRequests ==
    \E id \in 0 .. (MaxSends - 1) :
        \E S \in (SUBSET (0 .. MaxSeq)) \ {{}} :
            /\ Transmit(<<ReqPacket(id, sortSet(S))>>)
            /\ last' = Step("peer", id, FALSE, <<ReqPacket(id, sortSet(S))>>)
            /\ UNCHANGED <<ids, closed, remoteAddress, payloads, sending,
                           receiving, finishNotifyQueue, messages, delivered,
                           drains, timeouts, failed, finLost, argument, result>>

\* a FIN of the peer on its way to A
PeerFinishes ==
    \E id \in 0 .. (MaxSends - 1) :
        /\ Transmit(<<FinPacket(id)>>)
        /\ last' = Step("peer", id, FALSE, <<FinPacket(id)>>)
        /\ UNCHANGED <<ids, closed, remoteAddress, payloads, sending,
                       receiving, finishNotifyQueue, messages, delivered,
                       drains, timeouts, failed, finLost, argument, result>>

PeerNext ==
    \/ UserSend
    \/ PacingDropped
    \/ StallDropped
    \/ Window
    \/ PeerRequests
    \/ PeerFinishes
    \/ ReceiveReq
    \/ ReceiveFin
    \/ ReceiveAck
    \/ ReceiveErr

PeerSpec == Init /\ [][PeerNext]_vars

(***************************************************************************)
(* The first advance of the fragment generator on its own, for endpoints   *)
(* constructed with other options than the one of Spec.                    *)
(***************************************************************************)
\* the first packetsGenerator.next() of a transfer of id 0
FirstAdvance ==
    /\ result' = Returns("first",
           firstParallels(0, argument.buffer, argument.window,
                          argument.frequency))
    /\ codecFrame

\* a payload of n bytes, an options.parallelCount and the _frequency the
\* constructor computed from the options
BurstInit ==
    /\ argument \in
           {[buffer |-> [k \in 1 .. n |-> k], window |-> w,
             frequency |-> f] :
               n \in 1 .. BurstLen, w \in 1 .. MaxWindow,
               f \in 1 .. MaxFrequency}
    /\ result = NoCall
    /\ ids = [p \in Peers |-> -1]
    /\ closed = FALSE
    /\ remoteAddress = FALSE
    /\ payloads = <<>>
    /\ sending = <<>>
    /\ receiving = <<>>
    /\ finishNotifyQueue = <<>>
    /\ network = {}
    /\ messages = [i \in Ids |-> 0]
    /\ delivered = [i \in Ids |-> <<>>]
    /\ drains = [i \in Keys |-> 0]
    /\ timeouts = [i \in Keys |-> 0]
    /\ failed = FALSE
    /\ finLost = 0
    /\ last = Step("init", -1, FALSE, <<>>)

BurstNext == FirstAdvance

BurstSpec == BurstInit /\ [][BurstNext]_vars

(***************************************************************************)
(* Idle time and the sweep of the tables.  Time passes in steps of 30      *)
(* minutes, and only when nothing shorter is pending: no datagram on the   *)
(* way, no packet queued, no stall, window, hole-check or finish-notify    *)
(* timer waiting.                                                          *)
(***************************************************************************)
Age ==
    /\ network = {}
    /\ finishNotifyQueue = <<>>
    /\ \A i \in DOMAIN sending :
           /\ sending[i].queues = <<>>
           /\ ~sending[i].retryTimer /\ ~sending[i].delayTimer
    /\ \A i \in DOMAIN receiving : ~receiving[i].timer.armed
    /\ \/ \E i \in DOMAIN sending :
              sending[i].inTable /\ sending[i].idle < TtlAge
       \/ \E i \in DOMAIN receiving :
              receiving[i].inTable /\ receiving[i].idle < TtlAge
    /\ sending' = [i \in DOMAIN sending |->
                       IF sending[i].inTable
                       THEN [sending[i] EXCEPT !.idle = Min(@ + 1, TtlAge)]
                       ELSE sending[i]]
    /\ receiving' = [i \in DOMAIN receiving |->
                         IF receiving[i].inTable
                         THEN [receiving[i] EXCEPT
                                 !.idle = Min(@ + 1, TtlAge)]
                         ELSE receiving[i]]
    /\ last' = Step("age", -1, FALSE, <<>>)
    /\ UNCHANGED <<ids, closed, remoteAddress, payloads, finishNotifyQueue,
                   network, messages, delivered, drains, timeouts, failed,
                   finLost, argument, result>>

\* now - value.__lastVisit__ > ttl
expired(value) == value.inTable /\ value.idle >= TtlAge

\* the setInterval callback of Session.autoClear: this._super.delete(key) for
\* every entry past its ttl.  The callback does not call the table's
\* onBeforeDestroy; armed holds the keys of the objects with a timer armed,
\* which stay while it is.
sweep(table, armed) ==
    LET swept == [i \in DOMAIN table |->
                     IF expired(table[i])
                     THEN [table[i] EXCEPT !.inTable = FALSE]
                     ELSE table[i]]
        kept == {i \in DOMAIN table : swept[i].inTable \/ i \in armed}
    IN  [i \in kept |-> swept[i]]

SweepSending ==
    /\ \E i \in DOMAIN sending : expired(sending[i])
    /\ sending' = sweep(sending,
           {i \in DOMAIN sending : generatorArmed(sending[i])})
    /\ last' = Step("sweep", -1, TRUE, <<>>)
    /\ UNCHANGED <<ids, closed, remoteAddress, payloads, receiving,
                   finishNotifyQueue, network, messages, delivered, drains,
                   timeouts, failed, finLost, argument, result>>

SweepReceiving ==
    /\ \E i \in DOMAIN receiving : expired(receiving[i])
    /\ receiving' = sweep(receiving,
           {i \in DOMAIN receiving : receiving[i].timer.armed})
    /\ last' = Step("sweep", -1, FALSE, <<>>)
    /\ UNCHANGED <<ids, closed, remoteAddress, payloads, sending,
                   finishNotifyQueue, network, messages, delivered, drains,
                   timeouts, failed, finLost, argument, result>>

\* a transfer over a lossy network, and the hours after it
TtlNext ==
    \/ UserSend
    \/ Pacing
    \/ Stall
    \/ Window
    \/ Check
    \/ NotifyTick
    \/ ReceiveReq
    \/ ReceiveFin
    \/ ReceivePsh
    \/ ReceiveAck
    \/ ReceiveErr
    \/ Loss
    \/ Age
    \/ SweepSending
    \/ SweepReceiving

TtlSpec == Init /\ [][TtlNext]_vars

(***************************************************************************)
(* The wire format: what the _sendXxxPacket functions and _packData put    *)
(* into a datagram, and what _receive and _parse make of it.               *)
(***************************************************************************)
\* the bound of WireSpec: the bytes of data of a PSH
WireLen == 2

\* buf.writeUInt16LE(value): the low byte first
writeUInt16LE(value) == <<value % 256, value \div 256>>

\* buf.writeUInt16BE(value) into a Buffer of 2 bytes, value within 0 .. 0xFFFF
writeUInt16BE(value) == <<value \div 256, value % 256>>

\* UDP_TYPE_CODES.get(type)
TypeCode(type) ==
    CASE type = "PSH" -> UDP_PSH_CODE
      [] type = "REQ" -> UDP_REQ_CODE
      [] type = "FIN" -> UDP_FIN_CODE
      [] type = "ACK" -> UDP_ACK_CODE
      [] type = "ERR" -> UDP_ERR_CODE

\* UDP_CODE_TYPES.get(code)
CodeType(code) ==
    CASE code = UDP_PSH_CODE -> "PSH"
      [] code = UDP_REQ_CODE -> "REQ"
      [] code = UDP_FIN_CODE -> "FIN"
      [] code = UDP_ACK_CODE -> "ACK"
      [] code = UDP_ERR_CODE -> "ERR"
      [] OTHER -> "undefined"

\* _packHeader(type, id): Buffer.alloc(6), the code at 0, the id at 2
\* (header.writeUInt32BE(id, 2), id within 0 .. 0xFFFFFFFF)
_packHeader(type, id) ==
    <<TypeCode(type), 0, id \div 16777216, (id \div 65536) % 256,
      (id \div 256) % 256, id % 256>>

\* the words of a list of 16-bit values, written one after the other
RECURSIVE writeWords(_)
writeWords(values) ==
    IF values = <<>> THEN <<>>
    ELSE writeUInt16BE(Head(values)) \o writeWords(Tail(values))

\* the buffer _packData returns and each _sendXxxPacket hands to _send, for
\* a packet given by its fields; the holes of a REQ go through zipSequences
pack(packet) ==
    CASE packet.type = "PSH" ->
             _packHeader("PSH", packet.id) \o writeUInt16BE(packet.seq)
                 \o writeUInt16BE(packet.singleTotal)
                 \o writeUInt16BE(packet.total) \o packet.data
      [] packet.type = "REQ" ->
             _packHeader("REQ", packet.id)
                 \o writeWords(zipSequences(packet.holes))
      [] packet.type = "FIN" -> _packHeader("FIN", packet.id)
      [] packet.type = "ACK" ->
             _packHeader("ACK", packet.id) \o <<TypeCode(packet.ackType)>>
      [] packet.type = "ERR" ->
             _packHeader("ERR", packet.id) \o writeUInt16BE(packet.errType)

\* _parse(buffer): the fields of the type on top of the header.  A buffer
\* that ends too early or has an unknown type gives no packet.
_parse(buffer) ==
    LET outcome == parseOutcome(buffer) IN
    IF outcome \in {"RangeError", "null"} THEN [type |-> outcome]
    ELSE LET \* _parseHeader: readUInt8(0), readUInt32BE(2)
             hdr == [type |-> CodeType(buffer[1]),
                     id |-> buffer[3] * 16777216 + buffer[4] * 65536
                                + buffer[5] * 256 + buffer[6]]
             \* the 16-bit values _parseReqPacket reads from 6 to the end
             values == [k \in 1 .. ((Len(buffer) - 6) \div 2) |->
                           readUInt16BE(buffer, 6 + 2 * (k - 1))]
         IN
         CASE hdr.type = "PSH" ->
                  [type |-> hdr.type, id |-> hdr.id,
                   seq |-> readUInt16BE(buffer, 6),
                   singleTotal |-> readUInt16BE(buffer, 8),
                   total |-> readUInt16BE(buffer, 10),
                   data |-> SubSeq(buffer, 13, Len(buffer))]
           [] hdr.type = "REQ" ->
                  [type |-> hdr.type, id |-> hdr.id,
                   sequences |-> unzipSequences(values)]
           [] hdr.type = "FIN" -> hdr
           [] hdr.type = "ACK" ->
                  [type |-> hdr.type, id |-> hdr.id,
                   ackType |-> CodeType(buffer[7])]
           [] hdr.type = "ERR" ->
                  [type |-> hdr.type, id |-> hdr.id,
                   errType |-> readUInt16BE(buffer, 6)]

\* _receive(msg): the packet it emits, or why it emits none
_receive(msg) ==
    LET buffer == xor(msg) IN
    IF ~verify(buffer) THEN [type |-> "checksum"]
    ELSE _parse(SubSeq(buffer, 3, Len(buffer)))

\* the packets of the five kinds, by their fields
WirePackets ==
    LET uint16 == {0, 1, 256, 65535}
        uint32 == {0, 1, 65794, 2147483647}
        bytes == ListsUpTo({0, 255}, WireLen) \ {<<>>}
        holes == {sortSet(S) :
                     S \in SUBSET ((0 .. MaxSeq) \cup {MAX_INT16})}
        types == {"PSH", "REQ", "FIN", "ACK", "ERR"}
    IN  [type : {"PSH"}, id : uint32, seq : uint16, singleTotal : uint16,
         total : uint16, data : bytes]
            \cup [type : {"REQ"}, id : uint32, holes : holes]
            \cup [type : {"FIN"}, id : uint32]
            \cup [type : {"ACK"}, id : uint32, ackType : types]
            \cup [type : {"ERR"}, id : uint32, errType : uint16]

\* _send(buffer, rinfo) of the packet argument: the datagram leaves
WireSend ==
    /\ network = {} /\ result = NoCall
    /\ network' = {wire(pack(argument))}
    /\ UNCHANGED <<ids, closed, remoteAddress, payloads, sending, receiving,
                   finishNotifyQueue, messages, delivered, drains, timeouts,
                   failed, finLost, argument, result, last>>

\* the socket's "message" event at the peer: _receive(msg)
WireReceive ==
    \E msg \in network :
        /\ network' = network \ {msg}
        /\ result' = Returns("receive", _receive(msg))
        /\ UNCHANGED <<ids, closed, remoteAddress, payloads, sending,
                       receiving, finishNotifyQueue, messages, delivered,
                       drains, timeouts, failed, finLost, argument, last>>

WireInit ==
    /\ argument \in WirePackets
    /\ result = NoCall
    /\ ids = [p \in Peers |-> -1]
    /\ closed = FALSE
    /\ remoteAddress = FALSE
    /\ payloads = <<>>
    /\ sending = <<>>
    /\ receiving = <<>>
    /\ finishNotifyQueue = <<>>
    /\ network = {}
    /\ messages = [i \in Ids |-> 0]
    /\ delivered = [i \in Ids |-> <<>>]
    /\ drains = [i \in Keys |-> 0]
    /\ timeouts = [i \in Keys |-> 0]
    /\ failed = FALSE
    /\ finLost = 0
    /\ last = Step("init", -1, FALSE, <<>>)

WireNext ==
    \/ WireSend
    \/ WireReceive

WireSpec == WireInit /\ [][WireNext]_vars

(***************************************************************************)
(* The receiving table over hours: a peer that sends the fragments of a    *)
(* transfer at any time, again after the transfer was delivered, and the   *)
(* same id again much later.                                               *)
(***************************************************************************)
\* a PSH of the peer on its way to B: a fragment of its payload of MaxLen
\* bytes
PeerPushes ==
    LET payload == [k \in 1 .. MaxLen |-> k] IN
    \E id \in 0 .. (MaxSends - 1) :
        \E seq \in 0 .. (totalCount(payload) - 1) :
            /\ Transmit(<<packData(id, seq, payload)>>)
            /\ last' = Step("peer", id, FALSE, <<packData(id, seq, payload)>>)
            /\ UNCHANGED <<ids, closed, remoteAddress, payloads, sending,
                           receiving, finishNotifyQueue, messages, delivered,
                           drains, timeouts, failed, finLost, argument, result>>

IdleNext ==
    \/ PeerPushes
    \/ ReceivePsh
    \/ Check
    \/ NotifyTick
    \/ ReceiveReq
    \/ ReceiveFin
    \/ ReceiveAck
    \/ ReceiveErr
    \/ Loss
    \/ Age
    \/ SweepReceiving

IdleSpec == Init /\ [][IdleNext]_vars

(***************************************************************************)
(* Properties.                                                             *)
(***************************************************************************)
\* C1: over a network that loses nothing, once A has emitted drain for a
\* transfer B has emitted message for it exactly once, with the bytes sent,
\* and A has emitted drain once and holds no session for the id.
C1_LosslessTransfer ==
    \A i \in Ids :
        drains[i] > 0 =>
            /\ messages[i] = 1 /\ delivered[i] = payloads[i]
            /\ drains[i] = 1 /\ ~sendingHas(i)

\* C2: B emits message at most once for a transfer, whatever is lost and
\* re-sent; a PSH arriving after the delivery leads to no second message.
C2_MessageOnce == \A i \in Ids : messages[i] <= 1

\* C3: every message event carries the bytes passed to send(): all slots of
\* [0, total) held the fragment the sender packed (a hole would leave the
\* concatenation short of them).
C3_DeliverySafety ==
    \A i \in Ids : messages[i] > 0 => delivered[i] = payloads[i]
\* a payload of several fragments was delivered
C3_Witness ==
    \E i \in Ids : messages[i] > 0 /\ Len(delivered[i]) > MAX_PACKET_SIZE

\* C4: A emits drain (and calls on_drain, in the same branch) at most once
\* for a transfer, however many FINs arrive.
C4_DrainAtMostOnce == \A i \in Ids : drains[i] <= 1
\* a FIN arrived for a transfer already drained
C4_Witness ==
    /\ last.act = "fin" /\ ~last.hit
    /\ last.id \in Ids /\ drains[last.id] = 1

\* C5: at most one of drain and timeout is ever emitted for a transfer, and
\* once either is emitted the sending session is gone, with its timers.
C5_DrainXorTimeout ==
    \A i \in Ids :
        /\ ~(drains[i] > 0 /\ timeouts[i] > 0)
        /\ (drains[i] > 0 \/ timeouts[i] > 0) => i \notin DOMAIN sending
\* a FIN arrived after the timeout
C5_Witness ==
    /\ last.act = "fin" /\ ~last.hit
    /\ last.id \in Ids /\ timeouts[last.id] = 1
\* C6: when nothing A sends arrives, A never emits drain, and every sending
\* session leads to exactly one timeout and the destruction of the session.
C6_SenderTimeout ==
    \A i \in Ids :
        /\ [](drains[i] = 0 /\ timeouts[i] <= 1)
        /\ (i \in DOMAIN sending) ~>
               [](timeouts[i] = 1 /\ i \notin DOMAIN sending)
\* A gave up a transfer of several fragments
C6_Witness ==
    \E i \in Ids :
        /\ timeouts[i] = 1 /\ i \notin DOMAIN sending
        /\ i \in DOMAIN payloads /\ Len(payloads[i]) > MAX_PACKET_SIZE

\* C7: a sending session never comes to rest undecided: while A holds the
\* session (no drain, no timeout yet) something can still happen for it -- a
\* datagram of the transfer is on the way, B has a hole-check timer or a
\* finish-notify entry for it, or the generator has packets queued or its
\* stall or window timer armed.
C7_NoSessionAtRest ==
    \A i \in Ids :
        (sendingHas(i) /\ ~failed) =>
            \/ \E d \in network : d.id = i
            \/ i \in DOMAIN receiving /\ receiving[i].timer.armed
            \/ \E k \in 1 .. Len(finishNotifyQueue) : finishNotifyQueue[k].id = i
            \/ sending[i].queues # <<>>
            \/ sending[i].retryTimer
            \/ sending[i].delayTimer

C9_UnknownIdReq ==
    [][(last'.act = "req" /\ ~last'.hit) =>
          LET err == [type |-> "ERR", id |-> last'.id, errType |-> 0] IN
          /\ last'.out = <<err>>
          /\ err \in network'
          /\ network' \subseteq network \cup {err}
          /\ sending' = sending
          /\ UNCHANGED <<messages, drains, timeouts, failed>>]_vars
\* a REQ arrived after A timed out
C9_Witness ==
    /\ last.act = "req" /\ ~last.hit
    /\ last.id \in Ids /\ timeouts[last.id] = 1
    /\ \E d \in network : d.type = "ERR" /\ d.id = last.id

\* C10: an ERR(0) removes the receiving session of its id together with the
\* hole-check timer; it emits nothing, and the sessions of other ids stay as
\* they were.
C10_ErrRemovesSession ==
    [][last'.act = "err" =>
          /\ last'.id \notin DOMAIN receiving'
          /\ \A k \in DOMAIN receiving \ {last'.id} :
                 k \in DOMAIN receiving' /\ receiving'[k] = receiving[k]
          /\ network' \subseteq network
          /\ UNCHANGED <<messages, finishNotifyQueue>>]_vars
\* an ERR arrived while B waited for the holes of the second transfer, and held
\* the session of the first
C10_Witness ==
    /\ last.act = "err" /\ last.hit /\ last.id = 1
    /\ 0 \in DOMAIN receiving

\* C11: ids are allocated per peer: a send() that returns an id returns one
\* more than the id the peer got last (0 for its first transfer), records it
\* as the peer's last id, and leaves the last id of every other peer alone.
C11_IdsPerPeer ==
    [][last'.act = "send" =>
          LET gen == sending'[last'.id]
              p == gen.rinfo
          IN  /\ gen.id = ids[p] + 1
              /\ ids' = [ids EXCEPT ![p] = gen.id]
              /\ last'.id = _convertToId(gen.id, p)]_vars
\* a peer got its first id after another peer had got one
C11_Witness ==
    /\ last.act = "send" /\ last.id \in DOMAIN sending
    /\ sending[last.id].id = 0
    /\ \E q \in Peers : q # sending[last.id].rinfo /\ ids[q] = 0

\* C12: the id after MAX_COUNTER - 1 is 0: every id a peer is given lies in
\* [0, MAX_COUNTER).
C12_IdWrap == \A p \in Peers : ids[p] < MAX_COUNTER

\* the state of endpoint A a send() may touch: ids, tables, timers, events,
\* and the datagrams on the way
endpoint ==
    <<ids, closed, remoteAddress, payloads, sending, receiving,
      finishNotifyQueue, network, messages, delivered, drains, timeouts,
      failed>>

C14_FailingSend ==
    [][/\ IF last'.act \in {"Missing", "State", "InvalidArgument", "Range"}
          THEN /\ UNCHANGED endpoint
               /\ last'.act = "Missing" =>
                      last'.args.rinfo = -1 /\ ~remoteAddress
               /\ last'.act = "State" => closed
               /\ last'.act = "InvalidArgument" => ~last'.args.isBuffer
               /\ last'.act = "Range" =>
                      last'.args.length > MAX_BUFFER_SIZE
          ELSE TRUE
       /\ last'.act = "send" =>
              /\ ~closed
              /\ Len(payloads'[last'.id]) <= MAX_BUFFER_SIZE]_vars
\* a buffer one byte too long was refused while a session was under way
C14_Witness ==
    /\ last.act = "Range"
    /\ last.args.length = MAX_BUFFER_SIZE + 1
    /\ \E k \in Keys : sendingHas(k) /\ Len(payloads[k]) = MAX_BUFFER_SIZE

\* C15: on a closed endpoint a close() changes nothing and does not throw,
\* and every send() throws the State (closed) error and creates no session.
C15_ClosedEndpoint ==
    [][closed =>
          /\ last'.act \in {"close", "closeThrow", "closeAgain"} =>
                 last'.act = "closeAgain" /\ UNCHANGED endpoint
          /\ last'.act \in {"send", "null", "Missing", "State",
                             "InvalidArgument", "Range"} =>
                 last'.act = "State" /\ UNCHANGED endpoint]_vars

\* C16: a close() never throws, and on a closed endpoint the sending table
\* is empty, no pacing interval, stall timer or suppression timer of a
\* generator is armed, and no timer callback sends a datagram.
C16_CloseStopsAll ==
    /\ last.act # "closeThrow"
    /\ closed =>
           /\ \A k \in Keys : ~sendingHas(k)
           /\ \A k \in DOMAIN sending : ~generatorArmed(sending[k])
           /\ last.act \in {"pacing", "stall"} => last.out = <<>>

\* C17: for a list of integers of [0, FLAGS), unzip(zip(list)) is the list
\* sorted ascending without duplicates, element for element.
C17_RoundTrip ==
    (result.op = "unzipzip" /\ ~result.threw) =>
        result.value = sortSet(ToSet(argument.items))

\* C18: for a list of 16-bit values, marked or not, in any order, the list
\* unzip returns is strictly ascending (so it has no duplicates).
C18_UnzipAscending ==
    (/\ result.op = "unzip" /\ ~result.threw
     /\ \A k \in 1 .. Len(argument.items) : argument.items[k] \in 0 .. 65535)
        => \A i, j \in 1 .. Len(result.value) :
               i < j => result.value[i] < result.value[j]

\* C19: zip of a list of integers of [0, FLAGS) returns, in ascending order
\* of the values, the first and the last value of every maximal run of two
\* or more consecutive integers of the list, both marked with FLAGS, and
\* every other value of the list once, unmarked; zip of the empty list is
\* the empty list.
C19_ZipRuns ==
    (/\ result.op = "zip" /\ argument.isArray
     /\ \A k \in 1 .. Len(argument.items) :
            argument.items[k] \in 0 .. (FLAGS - 1))
        => LET S == ToSet(argument.items)
               singles == {a \in S : a - 1 \notin S /\ a + 1 \notin S}
               firsts == {a \in S : a - 1 \notin S /\ a + 1 \in S}
               lasts == {a \in S : a - 1 \in S /\ a + 1 \notin S}
               tokens == singles \cup {a + FLAGS : a \in firsts \cup lasts}
               out == result.value
           IN  /\ ~result.threw
               /\ ToSet(out) = tokens
               /\ Len(out) = Cardinality(tokens)
               /\ \A i, j \in 1 .. Len(out) :
                      i < j => out[i] % FLAGS < out[j] % FLAGS
\* an unsorted list with a run of two gave a marked pair and a single value
C19_Witness ==
    /\ result.op = "zip" /\ ~result.threw
    /\ Len(argument.items) = 3
    /\ argument.items[1] > argument.items[2]
    /\ \E a, b \in Plain :
           a + 1 < b /\ result.value = <<a + FLAGS, a + 1 + FLAGS, b>>

\* C20: zip throws, and returns no list, when its argument is no list or
\* when an element of the list, at any place, is negative or FLAGS or more.
C20_ZipRejects ==
    (/\ result.op = "zip"
     /\ \/ ~argument.isArray
        \/ \E k \in 1 .. Len(argument.items) :
               argument.items[k] < 0 \/ argument.items[k] >= FLAGS)
        => result.threw /\ result.value = <<>>
\* the list was refused for its last element, a value with the FLAGS bit
\* that came after the values in range
C20_Witness ==
    /\ result.op = "zip" /\ result.threw /\ argument.isArray
    /\ Len(argument.items) = CodecLen
    /\ argument.items[CodecLen] >= FLAGS
    /\ \A k \in 1 .. (CodecLen - 1) : argument.items[k] \in 0 .. (FLAGS - 1)

C22_ChecksumRoundTrip ==
    result.op = "verify" =>
        /\ result.ok
        /\ Len(result.value) = Len(argument.bytes) + 2
        /\ SubSeq(result.value, 3, Len(result.value)) = argument.bytes
\* a buffer of odd length whose words add up to more than 16 bits
C22_Witness ==
    /\ result.op = "verify" /\ result.ok
    /\ Len(argument.bytes) % 2 = 1
    /\ total(argument.bytes) > 65535

\* C23: xor(xor(B)) is B for every buffer B; xor(B) has the length of B and
\* its first 4 bytes, is B itself when B has 4 bytes or fewer, and the call
\* leaves its argument as it was.
C23_XorInvolution ==
    [][/\ result'.op = "xorxor" /\ ~result'.threw =>
              result'.value = argument.bytes /\ argument' = argument
       /\ result'.op = "xor" /\ ~result'.threw =>
              /\ Len(result'.value) = Len(argument.bytes)
              /\ \A k \in 1 .. Min(UNIT, Len(argument.bytes)) :
                     result'.value[k] = argument.bytes[k]
              /\ Len(argument.bytes) <= UNIT =>
                     result'.value = argument.bytes
              /\ argument' = argument]_vars
\* a buffer of two words and a byte, with a key that changes it, came back
C23_Witness ==
    /\ result.op = "xorxor" /\ ~result.threw
    /\ Len(argument.bytes) = 2 * UNIT + 1
    /\ xor(argument.bytes)[UNIT + 1] # argument.bytes[UNIT + 1]
    /\ xor(argument.bytes)[2 * UNIT + 1] # argument.bytes[2 * UNIT + 1]
    /\ result.value = argument.bytes

\* C24: no datagram raises an error out of the receive path: one that fails
\* the checksum, has an unknown type code, is shorter than the fixed fields
\* of its type, or is an ACK whose ack type is undefined, is dropped, and
\* no session, no queue and no event counter changes.
C24_MalformedDropped ==
    [][last'.act = "raw" =>
          /\ ~result'.threw
          /\ failed' = failed
          /\ UNCHANGED <<sending, receiving, finishNotifyQueue, network,
                         messages, delivered, drains, timeouts>>]_vars

\* C25: a sending session that hears nothing gives up on the third expiry of
\* its stall timer: the expiry that emits timeout is the third one, and only
\* the expiries before it re-send the last burst.  The closure counts its
\* runs in count, which is -1 while the timer waits for its first expiry.
C25_TimeoutOnThirdExpiry ==
    [][last'.act = "stall" =>
          LET i == last'.id
              expiry == sending[i].count + 2
          IN  /\ (timeouts'[i] # timeouts[i]) <=> (expiry = STALL_ROUNDS)
              /\ last'.out # <<>> => expiry < STALL_ROUNDS]_vars

\* C26: a finish-notify entry is re-sent at most RETRY_NOTIFIY_FIN_COUNT times:
\* a tick that sends the FIN of an entry is at most the tenth tick to do so.
\* The field n of an entry is -1 (undefined) until its first tick and one less
\* than the number of FINs the ticks sent for it afterwards.
C26_FinRetryBound ==
    [][last'.act = "notify" =>
          \A k \in 1 .. Len(finishNotifyQueue) :
              LET item == finishNotifyQueue[k] IN
              FinPacket(item.id) \in ToSet(last'.out) =>
                  item.n + 2 <= RETRY_NOTIFIY_FIN_COUNT]_vars

\* C27: once B has received an ACK(FIN) for a transfer, the finish-notify
\* queue holds no entry for it and B sends no FIN for it any more; the queue
\* never holds two entries for one transfer; and an ACK(FIN) for a transfer
\* without an entry leaves the queue as it is.
C27_AckEndsFin ==
    /\ [](\A i \in Ids :
             Cardinality({k \in 1 .. Len(finishNotifyQueue) :
                             finishNotifyQueue[k].id = i}) <= 1)
    /\ [][(last'.act = "ack" /\ ~last'.hit)
              => finishNotifyQueue' = finishNotifyQueue]_vars
    /\ \A i \in Ids :
           []((last.act = "ack" /\ last.id = i) =>
                [](/\ \A k \in 1 .. Len(finishNotifyQueue) :
                          finishNotifyQueue[k].id # i
                   /\ ~(/\ last.act \in {"check", "notify"}
                        /\ FinPacket(i) \in ToSet(last.out))))

C29_ReceiverAbort ==
    [][last'.act = "check" =>
          LET i == last'.id IN
          /\ (last'.out # <<>> /\ last'.out[1].type = "REQ") =>
                 receiving[i].retryCount < RETRY_REQUEST_COUNT
          /\ i \in DOMAIN receiving' =>
                 receiving'[i].retryCount <= RETRY_REQUEST_COUNT]_vars

\* C30: a PSH whose slot is already filled changes nothing in the receiving
\* session but the count of duplicates (which the model leaves out): slots,
\* scan index, retry count and the pending hole check stay as they were.
C30_DuplicateIgnored ==
    [][\A d \in network :
          (/\ d.type = "PSH" /\ last' = Step("psh", d.id, TRUE, <<>>)
           /\ network' = network \ {d}
           /\ receivingHas(d.id) /\ isBuffer(receiving[d.id].slots, d.seq))
              => receiving' = receiving]_vars

\* C31: a REQ that asks again for the sequences served when the suppression
\* window was opened, and arrives while the window is open, enqueues nothing
\* and leaves the window as it is: still open, with the same sequences.
C31_ReqIdempotent ==
    [][\A d \in network :
          (/\ d.type = "REQ" /\ last' = Step("req", d.id, TRUE, <<>>)
           /\ network' = network \ {d}
           /\ sendingHas(d.id)
           /\ sending[d.id].delayTimer
           /\ sending[d.id].lastRequestSequences # <<>>
           /\ ToSet(unzipSequences(d.sequences))
                  = ToSet(sending[d.id].lastRequestSequences))
              => /\ d.id \in DOMAIN sending'
                 /\ sending'[d.id].queues = sending[d.id].queues
                 /\ sending'[d.id].delayTimer
                 /\ sending'[d.id].lastRequestSequences
                        = sending[d.id].lastRequestSequences]_vars

\* C32: every sequence number in the outbound queue of a sending session,
\* and of every PSH a pacing tick or the stall timer sends, is below the
\* total count of the transfer, whatever the REQs of the peer name.
C32_SeqBelowTotal ==
    /\ \A i \in DOMAIN sending :
           \A k \in 1 .. Len(sending[i].queues) :
               sending[i].queues[k] < totalCount(sending[i].buffer)
    /\ last.act \in {"pacing", "stall"} =>
           \A k \in 1 .. Len(last.out) : last.out[k].seq < last.out[k].total

\* C33: a pacing tick sends the first packets of the outbound queue, at most
\* ParallelCount of them, takes exactly these out of the queue and leaves the
\* rest in their order; and the queue never holds a sequence number twice.
C33_PacingBurst ==
    [][/\ last'.act = "pacing" =>
              LET i == last'.id
                  q == sending[i].queues
                  n == Len(last'.out)
              IN  /\ n = Min(ParallelCount, Len(q))
                  /\ \A k \in 1 .. n :
                         /\ last'.out[k].type = "PSH"
                         /\ last'.out[k].seq = q[k]
                  /\ i \in DOMAIN sending'
                  /\ sending'[i].queues = SubSeq(q, n + 1, Len(q))
       /\ \A i \in DOMAIN sending' :
              LET q == sending'[i].queues IN
              \A j, k \in 1 .. Len(q) : j # k => q[j] # q[k]]_vars
\* a tick sent its share and left two packets queued, while the peer asked
\* again for a sequence still in the queue
C33_Witness ==
    /\ last.act = "pacing" /\ Len(last.out) = ParallelCount
    /\ last.id \in DOMAIN sending
    /\ Len(sending[last.id].queues) >= 2
    /\ \E d \in network :
           /\ d.type = "REQ" /\ d.id = last.id
           /\ \E s \in ToSet(unzipSequences(d.sequences)) :
                  InSeq(s, sending[last.id].queues)

\* C34: the first advance of the generator yields the PSH packets of the
\* sequences 0, 1, ... below min(parallel count * frequency, total count), in
\* this order, where total count is the least number of fragments of
\* MAX_PACKET_SIZE bytes that hold the payload and parallel count the smaller
\* of the endpoint's window and the total count; each packet carries the total
\* count, the parallel count as single total, and its slice of the payload.
C34_InitialBurst ==
    result.op = "first" =>
        LET len == Len(argument.buffer)
            fragments == CHOOSE t \in 1 .. len :
                         (t - 1) * MAX_PACKET_SIZE < len
                             /\ len <= t * MAX_PACKET_SIZE
            parallel == IF argument.window < fragments THEN argument.window
                        ELSE fragments
            n == IF parallel * argument.frequency < fragments
                 THEN parallel * argument.frequency ELSE fragments
        IN  /\ Len(result.value) = n
            /\ \A k \in 1 .. n :
                   LET pkt == result.value[k]
                       from == (k - 1) * MAX_PACKET_SIZE
                       to == IF k * MAX_PACKET_SIZE < len
                             THEN k * MAX_PACKET_SIZE ELSE len
                   IN  /\ pkt.type = "PSH" /\ pkt.id = 0
                       /\ pkt.seq = k - 1
                       /\ pkt.total = fragments
                       /\ pkt.singleTotal = parallel
                       /\ pkt.data = [j \in 1 .. (to - from) |->
                                         argument.buffer[from + j]]
\* a burst of several packets that the total count cut short, the last
\* fragment shorter than the others
C34_Witness ==
    /\ result.op = "first"
    /\ argument.window * argument.frequency > Len(result.value)
    /\ Len(result.value) > argument.window
    /\ argument.window > 1
    /\ Len(result.value[Len(result.value)].data) < MAX_PACKET_SIZE

\* C35: a REQ that B sends names exactly the lowest holes of [0, total) of
\* the session, min(single total, number of holes) of them, and the scan
\* leaves the scan index at the first hole, or at total when there is none;
\* in a session not yet delivered no hole lies below the scan index.
C35_HoleScan ==
    [][/\ (last'.act = "check" /\ last'.out # <<>>
           /\ last'.out[1].type = "REQ") =>
              LET i == last'.id
                  buffers == receiving[i]
                  info == buffers.timer
                  empty == {j \in 0 .. (info.total - 1) :
                               ~isBuffer(buffers.slots, j)}
                  n == Min(info.singleTotal, Cardinality(empty))
                  lowest == {j \in empty :
                                Cardinality({h \in empty : h < j}) < n}
              IN  /\ ToSet(unzipSequences(last'.out[1].sequences)) = lowest
                  /\ receiving'[i].lastIndex =
                         IF empty = {} THEN info.total
                         ELSE CHOOSE j \in empty : \A h \in empty : j <= h
       /\ \A i \in DOMAIN receiving' :
              ~receiving'[i].used =>
                  \A j \in 0 .. (receiving'[i].lastIndex - 1) :
                      isBuffer(receiving'[i].slots, j)]_vars

\* C36: the sweep of a table runs the table's onBeforeDestroy on every entry
\* it removes: of a swept session nothing is left, no pacing interval, no
\* stall, window or hole-check timer (an object with an armed timer stays in
\* the model), and a swept sending session sends no PSH.
C36_SweepRunsHook ==
    /\ [][last'.act = "sweep" =>
              IF last'.hit
              THEN \A i \in DOMAIN sending :
                       expired(sending[i]) => i \notin DOMAIN sending'
              ELSE \A i \in DOMAIN receiving :
                       expired(receiving[i]) => i \notin DOMAIN receiving']_vars
    /\ [][last'.act \in {"pacing", "stall"} /\ last'.out # <<>> =>
              last'.hit]_vars

\* C37: once a sending session was destroyed by drain (FIN) or by timeout,
\* nothing of it is left (no queue, no pacing, stall or window timer), no
\* step sends a PSH of that transfer any more, and a REQ for it is answered
\* with ERR(ID_NOT_FOUND) and nothing else.  A session was destroyed that
\* way once its drain or timeout event was emitted.
C37_DestroyedIsSilent ==
    /\ [](\A id \in DOMAIN drains :
              drains[id] > 0 \/ timeouts[id] > 0 => id \notin DOMAIN sending)
    /\ [][\A id \in DOMAIN drains :
              (drains[id] > 0 \/ timeouts[id] > 0) /\ last'.id = id =>
                  /\ \A k \in 1 .. Len(last'.out) : last'.out[k].type # "PSH"
                  /\ last'.act = "req" =>
                         last'.out = <<ErrPacket(id, ERR_NOT_FOUND_ID)>>]_vars

\* a REQ arrives for a transfer whose session the FIN destroyed
C37_Witness ==
    \E id \in DOMAIN drains :
        /\ drains[id] > 0
        /\ last.act = "req" /\ last.id = id
        /\ last.out = <<ErrPacket(id, ERR_NOT_FOUND_ID)>>

\* C39: sum(buffer) is the 16-bit one's-complement sum of the words of the
\* buffer (a last odd byte taken as the high byte of a word): every carry out
\* of bit 15 is added back into the low 16 bits, which leaves 0 for a sum of
\* 0 and otherwise the value of 1 .. 0xFFFF congruent to the sum modulo
\* 0xFFFF.
C39_OnesComplementSum ==
    result.op = "sum" =>
        LET t == total(argument.bytes) IN
        result.value = IF t = 0 THEN 0 ELSE ((t - 1) % 65535) + 1

\* C40: a packet of any of the five kinds, built by the send path (header
\* and payload, checksum in front, xor) and taken by the receive path (xor,
\* verify, strip, parse), comes out as a packet of the same kind with the
\* same id and the same fields: seq, single total, total count and data of a
\* PSH, the same set of sequences of a REQ, the ack type of an ACK, the
\* error code of an ERR.
C40_WireRoundTrip ==
    result.op = "receive" =>
        LET sent == argument
            got == result.value
        IN  /\ got.type = sent.type
            /\ got.id = sent.id
            /\ sent.type = "PSH" =>
                   /\ got.seq = sent.seq
                   /\ got.singleTotal = sent.singleTotal
                   /\ got.total = sent.total
                   /\ got.data = sent.data
            /\ sent.type = "REQ" =>
                   /\ ToSet(got.sequences) = ToSet(sent.holes)
                   /\ Len(got.sequences) = Len(sent.holes)
            /\ sent.type = "FIN" => DOMAIN got = {"type", "id"}
            /\ sent.type = "ACK" => got.ackType = sent.ackType
            /\ sent.type = "ERR" => got.errType = sent.errType

\* a REQ naming a run of sequences and one apart has made the trip
C40_Witness ==
    /\ result.op = "receive"
    /\ argument.type = "REQ"
    /\ argument.holes = <<0, 1, 2, 32767>>
    /\ result.value.type = "REQ"

\* C38: ReceivingSession.get, as the PSH handler calls it, always yields an
\* entry that is in the table with its last visit stamped.  An entry that is
\* flagged delivered and was not visited for more than 30 minutes is replaced
\* by an empty one, like a key the table does not hold (the handler then
\* stores its fragment into the empty entry); a delivered entry visited more
\* recently and an undelivered entry of any age are returned as they are,
\* with their flag, their scan index and their fragments.
C38_GetRecyclesStale ==
    [][last'.act = "psh" =>
          LET id == last'.id
              new == receiving'[id]
              \* the slots of an entry that hold a fragment
              filled(buffers) ==
                  {k \in 1 .. Len(buffers.slots) : buffers.slots[k] # Hole}
          IN  /\ id \in DOMAIN receiving'
              /\ new.inTable /\ new.idle = 0
              /\ IF \/ ~receivingHas(id)
                    \/ receiving[id].used /\ receiving[id].idle >= RecycleAge
                 THEN /\ ~new.used /\ new.lastIndex = 0
                      /\ Cardinality(filled(new)) = 1
                 ELSE /\ new.used = receiving[id].used
                      /\ new.lastIndex = receiving[id].lastIndex
                      /\ \A k \in filled(receiving[id]) :
                             /\ k \in filled(new)
                             /\ new.slots[k] = receiving[id].slots[k]]_vars

\* a PSH has reached a key the table held, of a transfer delivered before,
\* and was stored into an empty entry put in the place of the delivered one
C38_Witness ==
    /\ last.act = "psh" /\ last.hit
    /\ messages[last.id] > 0
    /\ ~receiving[last.id].used
    /\ receiving[last.id].idle = 0
    /\ receiving[last.id].retryCount = 0
    /\ \E d \in DOMAIN delivered : delivered[d] # <<>>
====
